---- MODULE Spec2Model ----
(***************************************************************************)
(* SoterFlow: the sync orchestrator (agent/orchestrator), the work-item    *)
(* store (store/workitems, store/db, store/sync) and the channel           *)
(* interface (channels/base), as a state machine.                          *)
(*                                                                         *)
(* Time is counted in hours: Date.now() is `now`, an item's timestamp is   *)
(* an hour count.  A text (title, body, author, id) is a string; what the  *)
(* urgent-keyword regexp and the FTS5 tokenizer see of it is its set of    *)
(* lower-case word tokens, Tokens(text).                                   *)
(***************************************************************************)
EXTENDS Integers, Sequences, FiniteSets, TLC

\* ------------------------------------------------------------- bounds
\* Number of clock advances a behaviour takes, and the hours of one advance.
MaxTicks == 2
TickHours == 25
\* Longest list one channel's sync() returns.
MaxFetch == 1
\* deduplicateItems is applied to lists of at most MaxItems items.
MaxItems == 3
\* withRetry is called with maxRetries left out or from 1 to MaxRetryOption.
MaxRetryOption == 3

\* ------------------------------------------------- program constants
AgeHighHours == 24
AgeUrgentHours == 48
DEFAULT_MAX_RETRIES == 3
DefaultOrder == 2

\* ------------------------------------------------------------- types
Priorities == {"urgent", "high", "normal", "low"}
Statuses == {"new", "seen", "in_progress", "done", "dismissed"}
ItemTypes == {"mention", "task", "message", "pr", "issue", "notification"}

PRIORITY_ORDER(p) ==
  CASE p = "urgent" -> 0
    [] p = "high" -> 1
    [] p = "normal" -> 2
    [] p = "low" -> 3
    [] OTHER -> DefaultOrder

\* The channels handed to syncAll, in the order of the array.
Channels == <<"github", "slack">>
ChannelNames == {Channels[k] : k \in 1..Len(Channels)}

\* ------------------------------------------------------------- texts
\* The word tokens of the texts the model uses (lower-cased, split at
\* non-alphanumerics: the \b boundaries of the regexp and the unicode61
\* tokenizer of FTS5 agree on these texts).
Tokens(text) ==
  CASE text = "" -> {}
    [] text = "Fix login bug" -> {"fix", "login", "bug"}
    [] text = "CRITICAL: server down" -> {"critical", "server", "down"}
    [] text = "Rewrite OAuth flow" -> {"rewrite", "oauth", "flow"}
    [] text = "Button colors" -> {"button", "colors"}
    [] text = "Download report" -> {"download", "report"}
    [] text = "p0 outage" -> {"p0", "outage"}
    [] text = "testuser" -> {"testuser"}
    [] text = "oauth-bot" -> {"oauth", "bot"}
    [] text = "github-issue-1" -> {"github", "issue", "1"}
    [] text = "slack-dm-1" -> {"slack", "dm", "1"}
    [] text = "OAuth" -> {"oauth"}
    [] text = "issue" -> {"issue"}
    [] OTHER -> {text}

\* /\b(urgent|critical|hotfix|p0|sev[- ]?0|outage|down)\b/i
UrgentWords == {"urgent", "critical", "hotfix", "p0", "sev0", "outage", "down"}

urgentKeywords(text) == Tokens(text) \cap UrgentWords # {}

\* --------------------------------------------------- priority engine
\* An escalation whose second test is not an else-branch: a normal item
\* older than 48 hours goes up twice.
applyAgeEscalationCascade(item, t) ==
  LET ageHours == t - item.timestamp
      first == IF ageHours > AgeHighHours /\ item.priority = "normal"
                 THEN [item EXCEPT !.priority = "high"] ELSE item
  IN IF ageHours > AgeUrgentHours /\ first.priority = "high"
       THEN [first EXCEPT !.priority = "urgent"] ELSE first

\* applyAgeEscalation(item) at Date.now() = t: ageHours = (t - timestamp).
applyAgeEscalation(item, t) ==
  LET ageHours == t - item.timestamp IN
  IF ageHours > AgeUrgentHours /\ item.priority = "high"
    THEN [item EXCEPT !.priority = "urgent"]
  ELSE IF ageHours > AgeHighHours /\ item.priority = "normal"
    THEN [item EXCEPT !.priority = "high"]
  ELSE item

TypeRule(item) ==
  IF item.type = "pr" \/ item.type = "mention"
    THEN [item EXCEPT !.priority = "high"] ELSE item

DMRule(item) ==
  IF item.metadata.isDM THEN [item EXCEPT !.priority = "high"] ELSE item

KeywordRule(item) ==
  IF urgentKeywords(item.title) \/ urgentKeywords(item.body)
    THEN [item EXCEPT !.priority = "urgent"] ELSE item

\* The age pass that applyPriorityHeuristics runs on ingest.
IngestAgePass(item, t) == applyAgeEscalation(item, t)

\* The keyword test made before the type and DM rules.
applyPriorityHeuristicsKeywordFirst(item, t) ==
  IngestAgePass(DMRule(TypeRule(KeywordRule(item))), t)

\* applyPriorityHeuristics(item) at Date.now() = t: the item after the
\* in-place assignments.
applyPriorityHeuristics(item, t) ==
  IngestAgePass(KeywordRule(DMRule(TypeRule(item))), t)

\* -------------------------------------------------------- deduplicator
\* byUrl is the Map in insertion order of its keys: a set() on a key already
\* present keeps the key's place.
IndexOfUrl(byUrl, url) ==
  IF \E k \in 1..Len(byUrl) : byUrl[k].url = url
    THEN CHOOSE k \in 1..Len(byUrl) : byUrl[k].url = url
    ELSE 0

\* A comparison that never lets a later item take the url's place.
DedupKeepsFirst(item, existing) == FALSE

\* A comparison that lets a later item of equal priority take the place.
DedupReplacesOnTie(item, existing) ==
  PRIORITY_ORDER(item.priority) <= PRIORITY_ORDER(existing.priority)

DedupReplaces(item, existing) ==
  PRIORITY_ORDER(item.priority) < PRIORITY_ORDER(existing.priority)

\* A loop without the `if (!item.url)` branch: the empty url is a key of
\* the map like any other.
DedupStepGroupsEmpty(acc, item) ==
  LET k == IndexOfUrl(acc.byUrl, item.url) IN
  IF k = 0
    THEN [acc EXCEPT !.byUrl = Append(@, item)]
    ELSE IF DedupReplaces(item, acc.byUrl[k])
           THEN [acc EXCEPT !.byUrl[k] = item]
           ELSE acc

DedupStep(acc, item) ==
  IF item.url = ""
    THEN [acc EXCEPT !.noUrl = Append(@, item)]
    ELSE LET k == IndexOfUrl(acc.byUrl, item.url) IN
         IF k = 0
           THEN [acc EXCEPT !.byUrl = Append(@, item)]
           ELSE IF DedupReplaces(item, acc.byUrl[k])
                  THEN [acc EXCEPT !.byUrl[k] = item]
                  ELSE acc

RECURSIVE DedupFold(_, _)
DedupFold(items, acc) ==
  IF items = <<>> THEN acc
  ELSE DedupFold(Tail(items), DedupStep(acc, Head(items)))

\* A result that lists the map's values last-inserted first.
deduplicateItemsLastUrlFirst(items) ==
  LET r == DedupFold(items, [byUrl |-> <<>>, noUrl |-> <<>>])
      n == Len(r.byUrl)
  IN [k \in 1..n |-> r.byUrl[n + 1 - k]] \o r.noUrl

deduplicateItems(items) ==
  LET r == DedupFold(items, [byUrl |-> <<>>, noUrl |-> <<>>])
  IN r.byUrl \o r.noUrl

\* --------------------------------------------------------------- store
\* The database d is [workitems, workitems_fts]: workitems maps an id (the
\* primary key) to its row, workitems_fts maps a rowid to the tokens the
\* FTS5 index holds for it, per indexed column.  created_at and updated_at
\* are read by no operation and are left out.  A timestamp is written with
\* toISOString() and read back with new Date(): the same instant; metadata
\* goes through JSON.stringify / JSON.parse: the same isDM flag.
StoredIds(d) == DOMAIN d.workitems

NextRowid(d) ==
  IF StoredIds(d) = {} THEN 1
  ELSE 1 + (CHOOSE m \in {d.workitems[i].rowid : i \in StoredIds(d)} :
              \A i \in StoredIds(d) : d.workitems[i].rowid <= m)

FtsColumns(row) ==
  [id |-> Tokens(row.id), title |-> Tokens(row.title),
   body |-> Tokens(row.body), author |-> Tokens(row.author)]

NoTokens == [id |-> {}, title |-> {}, body |-> {}, author |-> {}]

\* INSERT INTO workitems_fts(rowid, id, title, body, author) VALUES (...)
FtsInsert(fts, row) ==
  LET old == IF row.rowid \in DOMAIN fts THEN fts[row.rowid] ELSE NoTokens
      new == FtsColumns(row)
      ent == [c \in DOMAIN NoTokens |-> old[c] \cup new[c]]
  IN [r \in DOMAIN fts \cup {row.rowid} |-> IF r = row.rowid THEN ent ELSE fts[r]]

\* INSERT INTO workitems_fts(workitems_fts, rowid, ...) VALUES ('delete', ...):
\* takes the tokens of the given column values out of the rowid's entry.
FtsDelete(fts, row) ==
  IF row.rowid \notin DOMAIN fts THEN fts
  ELSE LET gone == FtsColumns(row)
           ent == [c \in DOMAIN NoTokens |-> fts[row.rowid][c] \ gone[c]]
       IN IF ent = NoTokens
            THEN [r \in DOMAIN fts \ {row.rowid} |-> fts[r]]
            ELSE [fts EXCEPT ![row.rowid] = ent]

\* Triggers of runMigrations.
workitems_ai(fts, new) == FtsInsert(fts, new)

\* An update trigger that only inserts the new values.
workitems_auInsertOnly(fts, old, new) == FtsInsert(fts, new)

workitems_au(fts, old, new) == FtsInsert(FtsDelete(fts, old), new)

\* A conflict clause that leaves body out of its SET list.
ConflictUpdateKeepsBody(old, item) ==
  [old EXCEPT !.title = item.title,
              !.author = item.author, !.timestamp = item.timestamp,
              !.priority = item.priority, !.url = item.url,
              !.metadata = item.metadata]

\* A conflict clause that also sets status = excluded.status.
ConflictUpdateStatusToo(old, item) ==
  [old EXCEPT !.title = item.title, !.body = item.body,
              !.author = item.author, !.timestamp = item.timestamp,
              !.priority = item.priority, !.url = item.url,
              !.metadata = item.metadata, !.status = item.status]

\* ON CONFLICT(id) DO UPDATE SET title, body, author, timestamp, priority,
\* url, metadata (and updated_at).
ConflictUpdate(old, item) ==
  [old EXCEPT !.title = item.title, !.body = item.body,
              !.author = item.author, !.timestamp = item.timestamp,
              !.priority = item.priority, !.url = item.url,
              !.metadata = item.metadata]

InsertRow(d, item) ==
  [rowid |-> NextRowid(d), id |-> item.id, source |-> item.source,
   type |-> item.type, title |-> item.title, body |-> item.body,
   author |-> item.author, timestamp |-> item.timestamp,
   priority |-> item.priority, url |-> item.url,
   metadata |-> item.metadata, status |-> item.status]

upsert(d, item) ==
  IF item.id \in StoredIds(d)
    THEN LET old == d.workitems[item.id]
             new == ConflictUpdate(old, item)
         IN [workitems |-> [d.workitems EXCEPT ![item.id] = new],
             workitems_fts |-> workitems_au(d.workitems_fts, old, new)]
    ELSE LET new == InsertRow(d, item)
         IN [workitems |-> [i \in StoredIds(d) \cup {item.id} |->
                              IF i = item.id THEN new ELSE d.workitems[i]],
             workitems_fts |-> workitems_ai(d.workitems_fts, new)]

\* An updateStatus that writes the status as INSERT OR REPLACE would: a row
\* is made for an id that has none.
updateStatusInsertsUnknown(d, id, status) ==
  IF id \notin StoredIds(d)
    THEN upsert(d, [id |-> id, source |-> "", type |-> "", title |-> "",
                    body |-> "", author |-> "", timestamp |-> 0,
                    priority |-> "normal", url |-> "",
                    metadata |-> [isDM |-> FALSE], status |-> status])
  ELSE LET old == d.workitems[id]
           new == [old EXCEPT !.status = status]
       IN [workitems |-> [d.workitems EXCEPT ![id] = new],
           workitems_fts |-> workitems_au(d.workitems_fts, old, new)]

\* UPDATE workitems SET status = ? WHERE id = ?: no row, no change.
updateStatus(d, id, status) ==
  IF id \notin StoredIds(d) THEN d
  ELSE LET old == d.workitems[id]
           new == [old EXCEPT !.status = status]
       IN [workitems |-> [d.workitems EXCEPT ![id] = new],
           workitems_fts |-> workitems_au(d.workitems_fts, old, new)]

rowToWorkItem(row) ==
  [id |-> row.id, source |-> row.source, type |-> row.type,
   title |-> row.title, body |-> row.body, author |-> row.author,
   timestamp |-> row.timestamp, priority |-> row.priority, url |-> row.url,
   metadata |-> row.metadata, status |-> row.status]

\* workitems_fts MATCH query: every word of the query is a token of some
\* indexed column of the entry.
FtsMatch(ent, query) ==
  \A w \in Tokens(query) : \E c \in DOMAIN NoTokens : w \in ent[c]

\* search(query): the rows joined to a matching index entry on rowid (the
\* order, rank, is not modelled: the result is the set of items).
search(d, query) ==
  {rowToWorkItem(d.workitems[i]) :
     i \in {j \in StoredIds(d) :
              /\ d.workitems[j].rowid \in DOMAIN d.workitems_fts
              /\ FtsMatch(d.workitems_fts[d.workitems[j].rowid], query)}}

\* toSorted / ORDER BY: the stable sort of seq by the comparator, Before(a, b)
\* meaning that a goes strictly before b.
StableSort(seq, Before(_, _)) ==
  LET n == Len(seq)
      pos(i) == 1 + Cardinality({j \in 1..n :
                     \/ Before(seq[j], seq[i])
                     \/ (~Before(seq[i], seq[j]) /\ j < i)})
  IN [p \in 1..n |-> seq[CHOOSE i \in 1..n : pos(i) = p]]

\* A filter is absent when it is "" (falsy); since is <<>> or <<hour>>.
NoFilters == [source |-> "", type |-> "", status |-> "", since |-> <<>>]

FilterMatches(row, f) ==
  /\ f.source = "" \/ row.source = f.source
  /\ f.type = "" \/ row.type = f.type
  /\ f.status = "" \/ row.status = f.status
  /\ f.since = <<>> \/ row.timestamp >= f.since[1]

\* The table in rowid order (rowids are 1..n: no row is ever deleted).
RowsByRowid(d) ==
  [k \in 1..Cardinality(StoredIds(d)) |->
     d.workitems[CHOOSE i \in StoredIds(d) : d.workitems[i].rowid = k]]

TimestampDesc(a, b) == a.timestamp > b.timestamp

\* getAll(filters): SELECT * FROM workitems WHERE ... ORDER BY timestamp DESC
\* (rows of equal timestamp in rowid order).
getAll(d, f) ==
  LET Keep(row) == FilterMatches(row, f)
      rows == StableSort(SelectSeq(RowsByRowid(d), Keep), TimestampDesc)
  IN [k \in 1..Len(rows) |-> rowToWorkItem(rows[k])]

\* A filter that drops done and dismissed items whatever the caller asked.
InboxKeepsNeverDone(i, f) == i.status # "done" /\ i.status # "dismissed"

InboxKeeps(i, f) ==
  IF f.status # "" THEN TRUE
  ELSE i.status # "done" /\ i.status # "dismissed"

\* A comparator whose tie-break puts the older item first.
InboxCompareOldestFirst(a, b) ==
  LET pd == PRIORITY_ORDER(a.priority) - PRIORITY_ORDER(b.priority)
  IN IF pd # 0 THEN pd ELSE a.timestamp - b.timestamp

InboxCompare(a, b) ==
  LET pd == PRIORITY_ORDER(a.priority) - PRIORITY_ORDER(b.priority)
  IN IF pd # 0 THEN pd ELSE b.timestamp - a.timestamp

InboxBefore(a, b) == InboxCompare(a, b) < 0

\* getInbox(filters) at Date.now() = t.
getInbox(d, f, t) ==
  LET Keep(i) == InboxKeeps(i, f)
      kept == SelectSeq(getAll(d, f), Keep)
      escalated == [k \in 1..Len(kept) |-> applyAgeEscalation(kept[k], t)]
  IN StableSort(escalated, InboxBefore)

\* ---------------------------------------------------------- sync state
\* sync_state maps a channel name (the primary key) to its one record.
updateSyncState(ss, channelName, t) ==
  [c \in DOMAIN ss \cup {channelName} |->
     IF c = channelName THEN [last_sync |-> t, cursor |-> "NULL"] ELSE ss[c]]

getSyncState(ss, channelName) ==
  IF channelName \in DOMAIN ss THEN <<ss[channelName]>> ELSE <<>>

\* -------------------------------------------------------- orchestrator
EmptyStats ==
  [totalItems |-> 0, newItems |-> 0, duplicatesSkipped |-> 0,
   perSource |-> <<>>]

\* stats.perSource[channel.name] = { total: 0, new: 0 }
AddSource(perSource, name) ==
  [c \in DOMAIN perSource \cup {name} |->
     IF c = name THEN [total |-> 0, new |-> 0] ELSE perSource[c]]

\* A persist loop that asks the store for the id before each upsert.
PersistStepRequeries(acc, item, existing, t) ==
  LET it == applyPriorityHeuristics(item, t)
      d2 == upsert(acc.d, it)
      st == acc.stats
  IN IF it.id \in StoredIds(acc.d)
       THEN [d |-> d2, stats |-> st]
       ELSE [d |-> d2,
             stats |->
               [st EXCEPT !.newItems = @ + 1,
                          !.perSource =
                            IF it.source \in DOMAIN @
                              THEN [@ EXCEPT ![it.source].new = @ + 1]
                              ELSE @]]

\* One turn of the persist loop: heuristics, upsert, the new-item counters.
PersistStep(acc, item, existing, t) ==
  LET it == applyPriorityHeuristics(item, t)
      d2 == upsert(acc.d, it)
      st == acc.stats
  IN IF it.id \in existing
       THEN [d |-> d2, stats |-> st]
       ELSE [d |-> d2,
             stats |->
               [st EXCEPT !.newItems = @ + 1,
                          !.perSource =
                            IF it.source \in DOMAIN @
                              THEN [@ EXCEPT ![it.source].new = @ + 1]
                              ELSE @]]

RECURSIVE PersistFold(_, _, _, _)
PersistFold(items, acc, existing, t) ==
  IF items = <<>> THEN acc
  ELSE PersistFold(Tail(items), PersistStep(acc, Head(items), existing, t),
                   existing, t)

\* A reconciliation whose totalItems counts what was fetched, not what
\* survived the dedup.
ReconcileTotalsFetched(d, all, st, t) ==
  LET deduped == deduplicateItems(all)
      st1 == [st EXCEPT !.duplicatesSkipped = Len(all) - Len(deduped),
                        !.totalItems = Len(all)]
      all0 == getAll(d, NoFilters)
      existing == {all0[k].id : k \in 1..Len(all0)}
      done == PersistFold(deduped, [d |-> d, stats |-> st1], existing, t)
  IN [d |-> done.d, stats |-> done.stats, existing |-> existing]

\* A reconciliation that mirrors the sources: the rows that no survivor of
\* the run names are deleted.
ReconcilePrunes(d, all, st, t) ==
  LET deduped == deduplicateItems(all)
      st1 == [st EXCEPT !.duplicatesSkipped = Len(all) - Len(deduped),
                        !.totalItems = Len(deduped)]
      all0 == getAll(d, NoFilters)
      existing == {all0[k].id : k \in 1..Len(all0)}
      done == PersistFold(deduped, [d |-> d, stats |-> st1], existing, t)
      keep == {deduped[k].id : k \in 1..Len(deduped)}
      rowids == {done.d.workitems[i].rowid : i \in keep}
  IN [d |-> [workitems |-> [i \in keep |-> done.d.workitems[i]],
             workitems_fts |-> [r \in rowids |-> done.d.workitems_fts[r]]],
      stats |-> done.stats, existing |-> existing]

\* syncAll after its loop over the channels: dedup, the membership snapshot,
\* the persist loop.
Reconcile(d, all, st, t) ==
  LET deduped == deduplicateItems(all)
      st1 == [st EXCEPT !.duplicatesSkipped = Len(all) - Len(deduped),
                        !.totalItems = Len(deduped)]
      all0 == getAll(d, NoFilters)
      existing == {all0[k].id : k \in 1..Len(all0)}
      done == PersistFold(deduped, [d |-> d, stats |-> st1], existing, t)
  IN [d |-> done.d, stats |-> done.stats, existing |-> existing]

\* The same up to the throw of a storage call: getAll() throws with n = 0 and
\* nothing written, the upsert of the item after the first n throws with
\* those n written.
ReconcileUpTo(d, all, st, t, n) ==
  LET deduped == deduplicateItems(all)
      st1 == [st EXCEPT !.duplicatesSkipped = Len(all) - Len(deduped),
                        !.totalItems = Len(deduped)]
      all0 == getAll(d, NoFilters)
      existing == {all0[k].id : k \in 1..Len(all0)}
      done == PersistFold(SubSeq(deduped, 1, n), [d |-> d, stats |-> st1],
                          existing, t)
  IN [d |-> done.d, stats |-> done.stats, existing |-> existing]

\* --------------------------------------------------------------- state
VARIABLES
  workitems,       \* table workitems: id -> row
  workitems_fts,   \* FTS5 index: rowid -> tokens per column
  sync_state,      \* table sync_state: channel name -> record
  now,             \* Date.now(), in hours
  pc,              \* where the syncAll call stands: "idle" (never called),
                   \* "race" (awaiting Promise.race), "catch" (awaiting the
                   \* catch block's disconnect), "returned", "threw"
  idx,             \* syncAll: index of the channel the loop is at
  allNewItems,     \* syncAll: the items collected from the channels
  stats,           \* syncAll: the SyncStats being filled, then returned
  existingItems,   \* syncAll: ids stored before the persist loop
  resultItems,     \* syncAll: the items it returned
  outcome,         \* history: how each channel's connect/sync/disconnect ended
  delivered,       \* history: what each channel's sync() returned to the race
  firstInserted,   \* history: id -> <<item>> as first inserted
  lastUpdate,      \* history: id -> status of the last updateStatus call on it
  lastApplied,     \* history: the same, counting only calls on a stored id
  lastFetched,     \* history: id -> <<item>> as its channel last delivered it
  lastUpserted,    \* history: id -> <<item>> as last handed to upsert
  storageError,    \* history: the storage call that threw in the running call
                   \* of syncAll, "none" when none did
  connected,       \* channel -> the adapter's _connected flag
  wasConnected,    \* history: connected, as it was when syncAll was called
  calls,           \* history: channel -> which of connect and disconnect the
                   \* running call of syncAll has called on the adapter
  arg,             \* the pure function under test (fn) and its argument
  ret,             \* what the function returned for it, as <<value>>
  retry,           \* the withRetry call under way: where it stands, its loop
                   \* variable, and what it has done so far
  runs,            \* syncAll calls of several processes on one database
                   \* file: call -> where it stands in its persistence phase
  http,            \* the request the API server is dealing with, and how far
                   \* it got through the middleware
  syncResult       \* history: channel -> what its sync() resolved with in
                   \* the running call of syncAll, as <<items>>, and whether
                   \* that was after the race had been lost to the timer

vars ==
  <<workitems, workitems_fts, sync_state, now, pc, idx, allNewItems, stats,
    existingItems, resultItems, outcome, delivered, firstInserted,
    lastUpdate, lastApplied, lastFetched, lastUpserted, storageError,
    connected, wasConnected, calls, arg, ret, retry, runs, http,
    syncResult>>

storeVars == <<workitems, workitems_fts>>
runVars ==
  <<pc, idx, allNewItems, stats, existingItems, resultItems, outcome,
    delivered>>
statusHistory == <<firstInserted, lastUpdate, lastApplied>>
adapterVars == <<connected, wasConnected, calls>>
sideVars == <<runs, http, syncResult>>
pureVars == <<arg, ret, retry, sideVars>>
frameVars == <<storageError, adapterVars, pureVars>>

DB == [workitems |-> workitems, workitems_fts |-> workitems_fts]

\* ------------------------------------------------- what channels deliver
MakeItem(id, source, type, title, body, priority, url, ts, isDM) ==
  [id |-> id, source |-> source, type |-> type, title |-> title,
   body |-> body, author |-> "testuser", timestamp |-> ts,
   priority |-> priority, url |-> url, metadata |-> [isDM |-> isDM],
   status |-> "new"]

SharedUrl == "https://github.com/org/repo/issues/42"

\* The items a channel's sync() may return (every connector sets status
\* "new" and its own name as the source), as far as a specification lets
\* them vary: one small family per specification.
GitHubItem(type, title, priority) ==
  MakeItem("github-issue-1", "github", type, title, "", priority, SharedUrl, 0,
           FALSE)

SlackItem(title, priority, url, isDM) ==
  MakeItem("slack-dm-1", "slack", "message", title, "", priority, url, 0, isDM)

\* Spec: what matters is which channel an item came from and whether the two
\* share a url.
Delivers(c) ==
  IF c = "github"
    THEN {GitHubItem("issue", "Fix login bug", "normal")}
    ELSE {SlackItem("Fix login bug", "high", u, FALSE) : u \in {SharedUrl, ""}}

\* SpecIngest: types, keywords and priorities vary.
DeliversIngest(c) ==
  IF c = "github"
    THEN {GitHubItem("issue", "Fix login bug", "normal"),
          GitHubItem("pr", "Fix login bug", "low")}
    ELSE {SlackItem("Fix login bug", "high", SharedUrl, FALSE),
          SlackItem("CRITICAL: server down", "high", SharedUrl, FALSE)}

\* SpecStatus: the same id comes back with another title.
DeliversStatus(c) ==
  IF c = "github"
    THEN {GitHubItem("issue", ti, "normal") :
            ti \in {"Fix login bug", "CRITICAL: server down"}}
    ELSE {SlackItem("Fix login bug", "high", "", FALSE)}

AllIds == {"github-issue-1", "slack-dm-1"}

RECURSIVE SeqsUpTo(_, _)
SeqsUpTo(S, n) ==
  IF n = 0 THEN {<<>>}
  ELSE LET shorter == SeqsUpTo(S, n - 1)
       IN shorter \cup {Append(q, x) : q \in shorter, x \in S}

Outcomes == {"ok", "connect_throws", "sync_throws", "disconnect_throws", "timeout"}
NoOutcome == [c \in ChannelNames |-> "none"]
NoHistory == [i \in AllIds |-> ""]
NoItems == [i \in AllIds |-> <<>>]
NoneDelivered == [c \in ChannelNames |-> <<>>]
NoneConnected == [c \in ChannelNames |-> FALSE]
NoCalls == [c \in ChannelNames |-> {}]

\* No call of withRetry is under way.
NoRetry ==
  [pc |-> "none", attempt |-> 0, invoked |-> 0, waits |-> 0, errors |-> <<>>,
   value |-> [kind |-> "none"], abandoned |-> FALSE]

\* The state after construction, but for the argument under test.
\* The syncAll calls that share one database file: two requests to POST
\* /api/sync of one server process, and a `soterflow sync` of the CLI, which
\* is a process of its own.
Runs == {"api-1", "api-2", "cli"}

ProcessOf(r) == IF r = "cli" THEN "cli" ELSE "server"

NoRuns ==
  [r \in Runs |-> [pc |-> "idle", survivors |-> <<>>, existing |-> {},
                   upserted |-> 0, newItems |-> 0]]

NoRequest == [pc |-> "idle"]

NoSyncResult == [c \in ChannelNames |-> [items |-> <<>>, late |-> FALSE]]

InitBase ==
  /\ workitems = <<>>
  /\ workitems_fts = <<>>
  /\ sync_state = <<>>
  /\ now = 0
  /\ pc = "idle"
  /\ idx = 0
  /\ allNewItems = <<>>
  /\ stats = EmptyStats
  /\ existingItems = {}
  /\ resultItems = <<>>
  /\ outcome = NoOutcome
  /\ delivered = NoneDelivered
  /\ firstInserted = NoItems
  /\ lastUpdate = NoHistory
  /\ lastApplied = NoHistory
  /\ lastFetched = NoItems
  /\ lastUpserted = NoItems
  /\ storageError = "none"
  /\ connected = NoneConnected
  /\ wasConnected = NoneConnected
  /\ calls = NoCalls
  /\ ret = <<>>
  /\ retry = NoRetry
  /\ runs = NoRuns
  /\ http = NoRequest
  /\ syncResult = NoSyncResult

NoArg == [fn |-> "none"]

Init == InitBase /\ arg = NoArg

\* ------------------------------------------------------------- actions
IdsOf(items) == {items[k].id : k \in 1..Len(items)}

LastWithId(items, id) ==
  items[CHOOSE k \in 1..Len(items) :
          /\ items[k].id = id
          /\ \A j \in (k + 1)..Len(items) : items[j].id # id]

FirstWithId(items, id) ==
  items[CHOOSE k \in 1..Len(items) :
          /\ items[k].id = id
          /\ \A j \in 1..(k - 1) : items[j].id # id]

HeuristicsOver(items, t) ==
  [k \in 1..Len(items) |-> applyPriorityHeuristics(items[k], t)]

\* The histories after a persist loop over the deduped items.
RecordIngest(deduped, t) ==
  /\ lastFetched' =
       [i \in AllIds |-> IF i \in IdsOf(deduped)
                           THEN <<LastWithId(deduped, i)>> ELSE lastFetched[i]]
  /\ lastUpserted' =
       [i \in AllIds |-> IF i \in IdsOf(deduped)
                           THEN <<LastWithId(HeuristicsOver(deduped, t), i)>>
                           ELSE lastUpserted[i]]
  /\ firstInserted' =
       [i \in AllIds |-> IF i \in IdsOf(deduped) /\ i \notin DOMAIN workitems
                           THEN <<FirstWithId(HeuristicsOver(deduped, t), i)>>
                           ELSE firstInserted[i]]

\* await channel.connect() / channel.disconnect() is reached for channel c.
Called(cl, c, method) == [cl EXCEPT ![c] = @ \cup {method}]

\* The calls once the loop has gone on from channel idx: the next channel's
\* connect() is called, if there is a next channel.
StartNext(cl) ==
  IF idx < Len(Channels) THEN Called(cl, Channels[idx + 1], "connect") ELSE cl

\* The calls of syncWithTimeout by the time the race settles with outcome o:
\* disconnect() is reached when connect() and sync() have returned.
AfterRace(cl, c, o) ==
  IF o \in {"ok", "disconnect_throws", "disconnect_hangs"}
    THEN Called(cl, c, "disconnect") ELSE cl

\* The adapter's flag when the race settles: connect() sets it unless it
\* throws, disconnect() clears it when it returns.
ConnectedAfter(o, was) ==
  IF o = "ok" THEN FALSE
  ELSE IF o = "connect_throws" THEN was
  ELSE TRUE

\* syncAll goes on after channel idx has been dealt with, `all` and `st`
\* being allNewItems and stats by then: the next turn of the loop up to its
\* await (the next channel's connect() is called), or after the last channel
\* the rest of the function, which has no await.
Proceed(all, st) ==
  IF idx < Len(Channels)
    THEN /\ idx' = idx + 1
         /\ pc' = "race"
         /\ allNewItems' = all
         /\ stats' = [st EXCEPT !.perSource = AddSource(@, Channels[idx + 1])]
         /\ UNCHANGED <<storeVars, existingItems, resultItems, firstInserted,
                        lastFetched, lastUpserted>>
    ELSE \E r \in {Reconcile(DB, all, st, now)} :
         /\ pc' = "returned"
         /\ idx' = idx
         /\ allNewItems' = all
         /\ stats' = r.stats
         /\ existingItems' = r.existing
         /\ workitems' = r.d.workitems
         /\ workitems_fts' = r.d.workitems_fts
         /\ resultItems' = getInbox(r.d, NoFilters, now)
         /\ RecordIngest(deduplicateItems(all), now)

\* syncAll(channels) is called: up to the first await.
SyncAll ==
  /\ pc \in {"idle", "returned", "threw"}
  /\ pc' = "race"
  /\ idx' = 1
  /\ allNewItems' = <<>>
  /\ stats' = [EmptyStats EXCEPT !.perSource = AddSource(@, Channels[1])]
  /\ existingItems' = {}
  /\ resultItems' = <<>>
  /\ outcome' = NoOutcome
  /\ delivered' = NoneDelivered
  /\ storageError' = "none"
  /\ wasConnected' = connected
  /\ calls' = Called(NoCalls, Channels[1], "connect")
  /\ UNCHANGED <<storeVars, sync_state, now, statusHistory, lastFetched,
                 lastUpserted, connected, pureVars>>

\* Promise.race settles for channel idx: with the items of sync() when
\* connect, sync and disconnect all returned in time (o = "ok"), with a
\* rejection otherwise, which the catch block takes.
RaceSettles(o, items) ==
  /\ pc = "race"
  /\ o = "ok" \/ items = <<>>
  /\ outcome' = [outcome EXCEPT ![Channels[idx]] = o]
  /\ delivered' = [delivered EXCEPT ![Channels[idx]] = items]
  /\ connected' = [connected EXCEPT ![Channels[idx]] = ConnectedAfter(o, @)]
  /\ IF o = "ok"
       THEN /\ sync_state' = updateSyncState(sync_state, Channels[idx], now)
            /\ calls' = StartNext(AfterRace(calls, Channels[idx], o))
            /\ Proceed(allNewItems \o items,
                       [stats EXCEPT !.perSource[Channels[idx]].total = Len(items)])
       ELSE /\ pc' = "catch"
            /\ calls' = Called(AfterRace(calls, Channels[idx], o),
                               Channels[idx], "disconnect")
            /\ UNCHANGED <<storeVars, sync_state, idx, allNewItems, stats,
                           existingItems, resultItems, firstInserted,
                           lastFetched, lastUpserted>>
  /\ UNCHANGED <<now, lastUpdate, lastApplied, storageError, wasConnected,
                 pureVars>>

\* A loop without the try/catch: the rejection leaves syncAll.
CatchRethrows ==
  /\ pc = "catch"
  /\ pc' = "threw"
  /\ UNCHANGED <<storeVars, sync_state, now, idx, allNewItems, stats,
                 existingItems, resultItems, outcome, delivered,
                 statusHistory, lastFetched, lastUpserted, frameVars>>

\* The catch block's await channel.disconnect() is over (a throw of it is
\* ignored).
CatchSettles ==
  /\ pc = "catch"
  /\ Proceed(allNewItems, stats)
  /\ connected' = [connected EXCEPT ![Channels[idx]] = FALSE]
  /\ calls' = StartNext(calls)
  /\ UNCHANGED <<sync_state, now, outcome, delivered, lastUpdate, lastApplied,
                 storageError, wasConnected, pureVars>>

\* updateStatus(id, status), from the CLI or the API.
UpdateStatus(id, status) ==
  /\ LET d == updateStatus(DB, id, status) IN
       /\ workitems' = d.workitems
       /\ workitems_fts' = d.workitems_fts
  /\ lastUpdate' = [lastUpdate EXCEPT ![id] = status]
  /\ lastApplied' = IF id \in DOMAIN workitems
                      THEN [lastApplied EXCEPT ![id] = status]
                      ELSE lastApplied
  /\ UNCHANGED <<sync_state, now, runVars, firstInserted, lastFetched,
                 lastUpserted, frameVars>>

\* Time passes, between two calls of syncAll: an advance is TickHours long,
\* a call takes at most a timeout of 30 s per channel.
Tick ==
  /\ pc \in {"idle", "returned"}
  /\ now + TickHours <= MaxTicks * TickHours
  /\ now' = now + TickHours
  /\ UNCHANGED <<storeVars, sync_state, runVars, statusHistory, lastFetched,
                 lastUpserted, frameVars>>

StatusInputs == {"seen", "done"}

\* The race of channel idx settles in one of the ways O with a list of at
\* most MaxFetch items out of D(channel).
Fetch(O, D(_)) ==
  /\ pc = "race"
  /\ \E o \in O :
       \E items \in SeqsUpTo(D(Channels[idx]), MaxFetch) : RaceSettles(o, items)

SetStatus == \E id \in AllIds, status \in StatusInputs : UpdateStatus(id, status)

\* The orchestrator with channels that fail in every way.
FetchAny == Fetch(Outcomes, Delivers)

Next ==
  \/ SyncAll
  \/ FetchAny
  \/ CatchSettles
  \/ Tick

Spec == Init /\ [][Next]_vars

\* The orchestrator with adapters that may also never complete a call.  An
\* adapter whose disconnect() never completes ("disconnect_hangs") loses the
\* race to the 30 s timer; the catch block then awaits its disconnect() again.
OutcomesLive == Outcomes \cup {"disconnect_hangs"}

FetchLive == Fetch(OutcomesLive, Delivers)

\* The catch block's disconnect() of an adapter whose disconnect completes.
CatchDisconnectCompletes ==
  /\ pc = "catch"
  /\ outcome[Channels[idx]] # "disconnect_hangs"
  /\ CatchSettles

NextLive ==
  \/ SyncAll
  \/ FetchLive
  \/ CatchSettles

\* The timer of the race always fires, so the race always settles; a call
\* that completes does so eventually; nothing bounds the disconnect() of the
\* catch block.
SpecLive ==
  /\ Init
  /\ [][NextLive]_vars
  /\ WF_vars(FetchLive)
  /\ WF_vars(CatchDisconnectCompletes)

\* ------------------------------------------------- storage calls that throw
StorageCalls == {"updateSyncState", "getAll", "upsert"}

\* The race of channel idx settles with the items of sync(), they are pushed,
\* and updateSyncState(channel.name) throws: it is inside the try, so the
\* catch block takes the error as it takes a rejection of the race.
SyncStateThrows(items) ==
  /\ pc = "race"
  /\ pc' = "catch"
  /\ outcome' = [outcome EXCEPT ![Channels[idx]] = "ok"]
  /\ delivered' = [delivered EXCEPT ![Channels[idx]] = items]
  /\ allNewItems' = allNewItems \o items
  /\ stats' = [stats EXCEPT !.perSource[Channels[idx]].total = Len(items)]
  /\ connected' = [connected EXCEPT ![Channels[idx]] = FALSE]
  /\ calls' = Called(calls, Channels[idx], "disconnect")
  /\ storageError' = "updateSyncState"
  /\ UNCHANGED <<storeVars, sync_state, now, idx, existingItems, resultItems,
                 statusHistory, lastFetched, lastUpserted, wasConnected,
                 pureVars>>

\* After the last channel a storage call of the rest of syncAll throws:
\* nothing is around it, so syncAll rejects, with the first n items written.
StoreThrows(all, st, call, n) ==
  /\ idx = Len(Channels)
  /\ call = "getAll" => n = 0
  /\ n < Len(deduplicateItems(all))
  /\ \E r \in {ReconcileUpTo(DB, all, st, now, n)} :
       /\ pc' = "threw"
       /\ allNewItems' = all
       /\ stats' = r.stats
       /\ existingItems' = IF call = "getAll" THEN {} ELSE r.existing
       /\ workitems' = r.d.workitems
       /\ workitems_fts' = r.d.workitems_fts
       /\ RecordIngest(SubSeq(deduplicateItems(all), 1, n), now)
  /\ storageError' = call
  /\ UNCHANGED <<idx, resultItems, now, lastUpdate, lastApplied, wasConnected,
                 pureVars>>

\* ... when the last channel's race has settled with items,
RaceSettlesStoreThrows(items, call, n) ==
  /\ pc = "race"
  /\ outcome' = [outcome EXCEPT ![Channels[idx]] = "ok"]
  /\ delivered' = [delivered EXCEPT ![Channels[idx]] = items]
  /\ connected' = [connected EXCEPT ![Channels[idx]] = FALSE]
  /\ calls' = Called(calls, Channels[idx], "disconnect")
  /\ sync_state' = updateSyncState(sync_state, Channels[idx], now)
  /\ StoreThrows(allNewItems \o items,
                 [stats EXCEPT !.perSource[Channels[idx]].total = Len(items)],
                 call, n)

\* ... or when its catch block is through.
CatchSettlesStoreThrows(call, n) ==
  /\ pc = "catch"
  /\ connected' = [connected EXCEPT ![Channels[idx]] = FALSE]
  /\ StoreThrows(allNewItems, stats, call, n)
  /\ UNCHANGED <<sync_state, outcome, delivered, calls>>

FetchFault == Fetch({"ok", "sync_throws"}, Delivers)

SyncStateFault ==
  /\ pc = "race"
  /\ \E items \in SeqsUpTo(Delivers(Channels[idx]), MaxFetch) :
       SyncStateThrows(items)

ReconcileFault ==
  \E call \in {"getAll", "upsert"}, n \in 0..(MaxFetch * Len(Channels)) :
    \/ /\ pc = "race"
       /\ \E items \in SeqsUpTo(Delivers(Channels[idx]), MaxFetch) :
            RaceSettlesStoreThrows(items, call, n)
    \/ CatchSettlesStoreThrows(call, n)

\* The orchestrator on a store whose calls may throw.
NextFault ==
  \/ SyncAll
  \/ FetchFault
  \/ CatchSettles
  \/ SyncStateFault
  \/ ReconcileFault

SpecFault == Init /\ [][NextFault]_vars

\* ------------------------------------------- long-lived cached connections
\* The caller of syncAll connects channel c and keeps it connected (a cached
\* channel instance), between two calls of syncAll.
Connect(c) ==
  /\ pc \in {"idle", "returned", "threw"}
  /\ ~connected[c]
  /\ connected' = [connected EXCEPT ![c] = TRUE]
  /\ UNCHANGED <<storeVars, sync_state, now, runVars, statusHistory,
                 lastFetched, lastUpserted, storageError, wasConnected, calls,
                 pureVars>>

ConnectAny == \E c \in ChannelNames : Connect(c)

FetchConn == Fetch({"ok", "sync_throws", "timeout"}, Delivers)

\* The orchestrator handed channels of which some are connected already.
NextConn ==
  \/ SyncAll
  \/ FetchConn
  \/ CatchSettles
  \/ ConnectAny

SpecConn == Init /\ [][NextConn]_vars

\* ------------------------------------------------ deduplicateItems alone
OtherUrl == "https://x.com/2"

\* Items that share a url or have none, with every priority, and that are
\* told apart by their id.
DedupItems ==
  {MakeItem(id, "github", "issue", "Fix login bug", "", p, SharedUrl, 0, FALSE) :
     id \in {"a", "b"}, p \in Priorities}
  \cup {MakeItem(id, "github", "issue", "Fix login bug", "", "normal", "", 0,
                 FALSE) : id \in {"a", "b"}}
  \cup {MakeItem("c", "github", "issue", "Fix login bug", "", "high", OtherUrl,
                 0, FALSE)}

InitDedup ==
  /\ InitBase
  /\ \E items \in SeqsUpTo(DedupItems, MaxItems) :
       arg = [fn |-> "deduplicateItems", items |-> items, pass |-> 1]

\* deduplicateItems(items) is called.
Deduplicate ==
  /\ arg.fn = "deduplicateItems"
  /\ ret = <<>>
  /\ ret' = <<deduplicateItems(arg.items)>>
  /\ UNCHANGED <<storeVars, sync_state, now, runVars, statusHistory,
                 lastFetched, lastUpserted, storageError, adapterVars, arg,
                 retry, sideVars>>

\* deduplicateItems is called on what it returned.
DeduplicateAgain ==
  /\ arg.fn = "deduplicateItems"
  /\ arg.pass = 1
  /\ ret # <<>>
  /\ arg' = [arg EXCEPT !.items = ret[1], !.pass = 2]
  /\ ret' = <<deduplicateItems(ret[1])>>
  /\ UNCHANGED <<storeVars, sync_state, now, runVars, statusHistory,
                 lastFetched, lastUpserted, storageError, adapterVars,
                 retry, sideVars>>

NextDedup ==
  \/ Deduplicate
  \/ DeduplicateAgain

SpecDedup == InitDedup /\ [][NextDedup]_vars

\* ------------------------------------------------ the priority rules alone
\* Items of every type and priority, with and without the DM flag, with and
\* without an urgent keyword in the title or in the body.
PriorityItems ==
  {MakeItem("a", "github", ty, ti, bo, p, SharedUrl, 0, dm) :
     ty \in ItemTypes, ti \in {"Fix login bug", "CRITICAL: server down",
                               "Download report"},
     bo \in {"", "p0 outage"}, p \in Priorities, dm \in BOOLEAN}

\* Date.now() for an item of timestamp 0: its age in hours, on both sides of
\* the two thresholds.
AgePoints ==
  {0, AgeHighHours, AgeHighHours + 1, AgeUrgentHours, AgeUrgentHours + 1}

InitPriority ==
  /\ InitBase
  /\ \E fn \in {"applyPriorityHeuristics", "applyAgeEscalation"},
        item \in PriorityItems, t \in AgePoints :
       arg = [fn |-> fn, item |-> item, t |-> t]

\* applyPriorityHeuristics(item) is called.
ApplyPriorityHeuristics ==
  /\ arg.fn = "applyPriorityHeuristics"
  /\ ret = <<>>
  /\ ret' = <<applyPriorityHeuristics(arg.item, arg.t)>>
  /\ UNCHANGED <<storeVars, sync_state, now, runVars, statusHistory,
                 lastFetched, lastUpserted, storageError, adapterVars, arg,
                 retry, sideVars>>

\* applyAgeEscalation(item) is called.
ApplyAgeEscalation ==
  /\ arg.fn = "applyAgeEscalation"
  /\ ret = <<>>
  /\ ret' = <<applyAgeEscalation(arg.item, arg.t)>>
  /\ UNCHANGED <<storeVars, sync_state, now, runVars, statusHistory,
                 lastFetched, lastUpserted, storageError, adapterVars, arg,
                 retry, sideVars>>

NextPriority ==
  \/ ApplyPriorityHeuristics
  \/ ApplyAgeEscalation

SpecPriority == InitPriority /\ [][NextPriority]_vars

\* Ingest of items of every kind at every age, by channels that work or throw.
FetchIngest == Fetch({"ok", "sync_throws"}, DeliversIngest)

NextIngest ==
  \/ SyncAll
  \/ FetchIngest
  \/ CatchSettles
  \/ Tick

SpecIngest == Init /\ [][NextIngest]_vars

\* Syncs and status updates interleaved.
FetchStatus == Fetch({"ok", "sync_throws"}, DeliversStatus)

NextStatus ==
  \/ SyncAll
  \/ FetchStatus
  \/ CatchSettles
  \/ SetStatus

SpecStatus == Init /\ [][NextStatus]_vars

\* The store used directly: upsert(item) and updateStatus(id, status) in any
\* order.  The items differ in every column an upsert writes.
StoreItems ==
  {[id |-> "github-issue-1", source |-> "github", type |-> "issue",
    title |-> "Fix login bug", body |-> "Rewrite OAuth flow",
    author |-> "testuser", timestamp |-> 0, priority |-> "normal",
    url |-> SharedUrl, metadata |-> [isDM |-> FALSE], status |-> "new"],
   [id |-> "github-issue-1", source |-> "github", type |-> "pr",
    title |-> "CRITICAL: server down", body |-> "Button colors",
    author |-> "oauth-bot", timestamp |-> TickHours, priority |-> "urgent",
    url |-> "", metadata |-> [isDM |-> TRUE], status |-> "seen"],
   [id |-> "slack-dm-1", source |-> "slack", type |-> "message",
    title |-> "Fix login bug", body |-> "Rewrite OAuth flow",
    author |-> "testuser", timestamp |-> 0, priority |-> "high",
    url |-> "", metadata |-> [isDM |-> TRUE], status |-> "new"],
   [id |-> "slack-dm-1", source |-> "slack", type |-> "message",
    title |-> "Fix login bug", body |-> "",
    author |-> "testuser", timestamp |-> 0, priority |-> "high",
    url |-> "", metadata |-> [isDM |-> TRUE], status |-> "new"]}

\* upsert(item), called on the store.
Upsert(item) ==
  /\ pc = "idle"
  /\ LET d == upsert(DB, item) IN
       /\ workitems' = d.workitems
       /\ workitems_fts' = d.workitems_fts
  /\ lastUpserted' = [lastUpserted EXCEPT ![item.id] = <<item>>]
  /\ firstInserted' = IF item.id \in DOMAIN workitems THEN firstInserted
                      ELSE [firstInserted EXCEPT ![item.id] = <<item>>]
  /\ UNCHANGED <<sync_state, now, runVars, lastUpdate, lastApplied,
                 lastFetched, frameVars>>

UpsertAny == \E item \in StoreItems : Upsert(item)

NextStore ==
  \/ UpsertAny
  \/ SetStatus

SpecStore == Init /\ [][NextStore]_vars

\* ------------------------------------------------------ reading the inbox
\* The filters a caller passes: none, a status, a source, or both.
InboxFilters ==
  {[NoFilters EXCEPT !.status = st, !.source = so] :
     st \in {"", "seen", "done", "dismissed"}, so \in {"", "slack"}}

\* A getInbox that escalates the stored items themselves: the escalated
\* priorities are written back.
GetInboxPersists(f) ==
  /\ pc = "idle"
  /\ arg' = [fn |-> "getInbox", filters |-> f]
  /\ ret' = <<getInbox(DB, f, now)>>
  /\ workitems' =
       [i \in DOMAIN workitems |->
          [workitems[i] EXCEPT
             !.priority = applyAgeEscalation(workitems[i], now).priority]]
  /\ UNCHANGED <<workitems_fts, sync_state, now, runVars, statusHistory,
                 lastFetched, lastUpserted, storageError, adapterVars,
                 retry, sideVars>>

\* getInbox(filters) is called.
GetInbox(f) ==
  /\ pc = "idle"
  /\ arg' = [fn |-> "getInbox", filters |-> f]
  /\ ret' = <<getInbox(DB, f, now)>>
  /\ UNCHANGED <<storeVars, sync_state, now, runVars, statusHistory,
                 lastFetched, lastUpserted, storageError, adapterVars,
                 retry, sideVars>>

GetInboxAny == \E f \in InboxFilters : GetInbox(f)

SetStatusAny ==
  \E id \in AllIds, status \in {"seen", "done", "dismissed"} :
    UpdateStatus(id, status)

\* The store filled by upserts, statuses set by the user, the inbox read.
NextInbox ==
  \/ UpsertAny
  \/ SetStatusAny
  \/ GetInboxAny

SpecInbox == Init /\ [][NextInbox]_vars

\* The inbox read as time passes: stored items age.
NextInboxAge ==
  \/ UpsertAny
  \/ Tick
  \/ GetInboxAny

SpecInboxAge == Init /\ [][NextInboxAge]_vars

\* No run is under way.
BetweenRuns == pc \in {"idle", "returned", "threw"}

\* search(query) is called.
Search(q) ==
  /\ BetweenRuns
  /\ arg' = [fn |-> "search", query |-> q]
  /\ ret' = <<search(DB, q)>>
  /\ UNCHANGED <<storeVars, sync_state, now, runVars, statusHistory,
                 lastFetched, lastUpserted, storageError, adapterVars,
                 retry, sideVars>>

\* The search and the inbox are read between runs.
ReadAny ==
  \/ \E q \in {"OAuth"} : Search(q)
  \/ /\ BetweenRuns
     /\ arg' = [fn |-> "getInbox", filters |-> NoFilters]
     /\ ret' = <<getInbox(DB, NoFilters, now)>>
     /\ UNCHANGED <<storeVars, sync_state, now, runVars, statusHistory,
                    lastFetched, lastUpserted, storageError, adapterVars,
                    retry, sideVars>>

CoreItems ==
  {it \in StoreItems : it.id = "slack-dm-1" /\ it.body = "Rewrite OAuth flow"}

\* upsert(item) called on the store between runs.
UpsertCore ==
  \E item \in CoreItems :
    /\ BetweenRuns
    /\ LET d == upsert(DB, item) IN
         /\ workitems' = d.workitems
         /\ workitems_fts' = d.workitems_fts
    /\ lastUpserted' = [lastUpserted EXCEPT ![item.id] = <<item>>]
    /\ firstInserted' = IF item.id \in DOMAIN workitems THEN firstInserted
                        ELSE [firstInserted EXCEPT ![item.id] = <<item>>]
    /\ UNCHANGED <<sync_state, now, runVars, lastUpdate, lastApplied,
                   lastFetched, frameVars>>

SetStatusCore == BetweenRuns /\ UpdateStatus("github-issue-1", "done")

FetchCore == Fetch({"ok", "sync_throws"}, Delivers)

\* Everything the core does to the store, in any order: runs whose sources
\* deliver, deliver nothing or fail, direct upserts, status updates, reads.
NextCore ==
  \/ SyncAll
  \/ FetchCore
  \/ CatchSettles
  \/ UpsertCore
  \/ SetStatusCore
  \/ ReadAny

SpecCore == Init /\ [][NextCore]_vars

\* A sync() may return the same id more than once.
MaxFetchSnapshot == 2

FetchSnapshot ==
  /\ pc = "race"
  /\ \E o \in {"ok", "sync_throws"} :
       \E items \in SeqsUpTo(Delivers(Channels[idx]), MaxFetchSnapshot) :
         RaceSettles(o, items)

NextSnapshot ==
  \/ SyncAll
  \/ FetchSnapshot
  \/ CatchSettles

SpecSnapshot == Init /\ [][NextSnapshot]_vars

\* Two sources see one url: a pull request labelled low or an issue with an
\* urgent word in its title on GitHub, a plain message about it on Slack.
DeliversCollapse(c) ==
  IF c = "github"
    THEN {GitHubItem("pr", "Fix login bug", "low"),
          GitHubItem("issue", "CRITICAL: server down", "normal")}
    ELSE {SlackItem("Fix login bug", p, SharedUrl, FALSE) :
            p \in {"normal", "high"}}

FetchCollapse == Fetch({"ok", "sync_throws"}, DeliversCollapse)

NextCollapse ==
  \/ SyncAll
  \/ FetchCollapse
  \/ CatchSettles

SpecCollapse == Init /\ [][NextCollapse]_vars

\* ------------------------------------- the awaits inside syncWithTimeout
AwaitFrame ==
  UNCHANGED <<storeVars, sync_state, now, runVars, statusHistory, lastFetched,
              lastUpserted, storageError, wasConnected, calls, arg, ret,
              retry, runs, http>>

\* `await channel.sync()` of the channel the loop is at resolves with items,
\* before the timer fires: `await channel.disconnect()` comes next.
SyncResolves(items) ==
  /\ pc = "race"
  /\ syncResult[Channels[idx]].items = <<>>
  /\ syncResult' = [syncResult EXCEPT ![Channels[idx]].items = <<items>>]
  /\ UNCHANGED connected
  /\ AwaitFrame

\* The race settles for the channel the loop is at.  With sync() resolved:
\* disconnect() returns and the race resolves with the items, or it throws,
\* or it has not returned when the timer fires.  Without: connect() or
\* sync() throws, or the timer fires first.
RaceSettlesAwait ==
  /\ pc = "race"
  /\ IF syncResult[Channels[idx]].items # <<>>
       THEN \/ RaceSettles("ok", syncResult[Channels[idx]].items[1])
            \/ \E o \in {"disconnect_throws", "timeout"} : RaceSettles(o, <<>>)
       ELSE \E o \in {"connect_throws", "sync_throws", "timeout"} :
              RaceSettles(o, <<>>)

\* A continuation that still hands its items on: they are pushed to the
\* list while the loop has not ended.
LateResultPushed(c, items) ==
  /\ outcome[c] = "timeout"
  /\ syncResult[c].items = <<>>
  /\ pc \in {"race", "catch"}
  /\ syncResult' = [syncResult EXCEPT ![c] = [items |-> <<items>>, late |-> TRUE]]
  /\ allNewItems' = allNewItems \o items
  /\ connected' = [connected EXCEPT ![c] = FALSE]
  /\ UNCHANGED <<storeVars, sync_state, now, pc, idx, stats, existingItems,
                 resultItems, outcome, delivered, statusHistory, lastFetched,
                 lastUpserted, storageError, wasConnected, calls, arg, ret,
                 retry, runs, http>>

\* The race was lost to the timer and sync() of channel c resolves with
\* items afterwards: the rest of syncWithTimeout runs (disconnect()), and
\* its return value goes to a promise that nothing awaits any more.
LateResult(c, items) ==
  /\ outcome[c] = "timeout"
  /\ syncResult[c].items = <<>>
  /\ syncResult' = [syncResult EXCEPT ![c] = [items |-> <<items>>, late |-> TRUE]]
  /\ connected' = [connected EXCEPT ![c] = FALSE]
  /\ AwaitFrame

SyncResolvesAny ==
  /\ pc = "race"
  /\ \E items \in SeqsUpTo(Delivers(Channels[idx]), MaxFetch) :
       SyncResolves(items)

LateResultAny ==
  \E c \in ChannelNames :
    \E items \in SeqsUpTo(Delivers(c), MaxFetch) \ {<<>>} : LateResult(c, items)

\* One call of syncAll, followed await by await.
SyncAllOnce == pc = "idle" /\ SyncAll

NextAwait ==
  \/ SyncAllOnce
  \/ SyncResolvesAny
  \/ RaceSettlesAwait
  \/ CatchSettles
  \/ LateResultAny

SpecAwait == Init /\ [][NextAwait]_vars

\* ------------------------------------------------------- defaultGetWaitMs
\* defaultGetWaitMs is called with attempt from 0 to MaxAttempt.
MaxAttempt == 8

MaxWaitMs == 120000

Min(a, b) == IF a <= b THEN a ELSE b
Max(a, b) == IF a >= b THEN a ELSE b

\* A defaultGetWaitMs whose retry-after branch has no cap.
defaultGetWaitMsUncappedHint(attempt, err, dateNow) ==
  IF err.retryAfter # <<>> /\ err.retryAfter[1] > 0
    THEN err.retryAfter[1] * 1000 + 500
  ELSE IF err.rateLimitReset # <<>>
    THEN Min(Max(0, err.rateLimitReset[1] * 1000 - dateNow) + 1000, MaxWaitMs)
  ELSE Min(1000 * 2 ^ attempt, MaxWaitMs)

\* defaultGetWaitMs(attempt, err), Date.now() being dateNow (ms): err carries
\* the retry-after header in seconds and the x-ratelimit-reset header as a
\* unix time in seconds, each as <<value>>, or <<>> when the header is
\* absent.
defaultGetWaitMs(attempt, err, dateNow) ==
  IF err.retryAfter # <<>> /\ err.retryAfter[1] > 0
    THEN Min(err.retryAfter[1] * 1000 + 500, MaxWaitMs)
  ELSE IF err.rateLimitReset # <<>>
    THEN Min(Max(0, err.rateLimitReset[1] * 1000 - dateNow) + 1000, MaxWaitMs)
  ELSE Min(1000 * 2 ^ attempt, MaxWaitMs)

WaitHints ==
  {[retryAfter |-> ra, rateLimitReset |-> rs] :
     ra \in {<<>>, <<0>>, <<1>>, <<30>>, <<119>>, <<120>>, <<3600>>},
     rs \in {<<>>, <<0>>, <<5>>, <<60>>, <<124>>, <<125>>, <<7200>>}}

\* Date.now(), in ms.
WaitClocks == {0, 5000, 5500, 60999}

InitWait ==
  /\ InitBase
  /\ \E a \in 0..MaxAttempt, err \in WaitHints, dateNow \in WaitClocks :
       arg = [fn |-> "defaultGetWaitMs", attempt |-> a, err |-> err,
              dateNow |-> dateNow]

DefaultGetWaitMs ==
  /\ arg.fn = "defaultGetWaitMs"
  /\ ret = <<>>
  /\ ret' = <<defaultGetWaitMs(arg.attempt, arg.err, arg.dateNow)>>
  /\ UNCHANGED <<storeVars, sync_state, now, runVars, statusHistory,
                 lastFetched, lastUpserted, storageError, adapterVars, arg,
                 retry, sideVars>>

NextWait == DefaultGetWaitMs

SpecWait == InitWait /\ [][NextWait]_vars

\* ------------------------------------------ syncAll calls on one database
\* What the channels of a call returned, all told.
RunFetches ==
  {<<>>,
   <<GitHubItem("issue", "Fix login bug", "normal")>>,
   <<GitHubItem("issue", "Fix login bug", "normal"),
     SlackItem("Fix login bug", "high", "", FALSE)>>}

RunFrame ==
  UNCHANGED <<sync_state, now, runVars, statusHistory, lastFetched,
              lastUpserted, storageError, adapterVars, arg, ret, retry, http,
              syncResult>>

\* From the dedup to the return, syncAll has no await: within one process
\* nothing else runs while a call is there.  Another process is not held
\* back: each statement on the database is a transaction of its own.
TurnFree(r) ==
  \A r2 \in Runs \ {r} :
    ProcessOf(r2) = ProcessOf(r) => runs[r2].pc # "persisting"

\* syncAll is called: up to the first await of the loop over the channels.
RunStarts(r) ==
  /\ runs[r].pc = "idle"
  /\ TurnFree(r)
  /\ runs' = [runs EXCEPT ![r].pc = "fetching"]
  /\ UNCHANGED storeVars
  /\ RunFrame

\* The last channel is dealt with: the dedup and the membership snapshot.
RunSnapshots(r, all) ==
  /\ runs[r].pc = "fetching"
  /\ TurnFree(r)
  /\ LET deduped == deduplicateItems(all)
         all0 == getAll(DB, NoFilters)
     IN runs' = [runs EXCEPT
                   ![r].pc = IF deduped = <<>> THEN "returned" ELSE "persisting",
                   ![r].survivors = deduped,
                   ![r].existing = {all0[k].id : k \in 1..Len(all0)}]
  /\ UNCHANGED storeVars
  /\ RunFrame

\* One turn of the persist loop: the next survivor is upserted and counted.
RunUpserts(r) ==
  /\ runs[r].pc = "persisting"
  /\ TurnFree(r)
  /\ LET item == runs[r].survivors[runs[r].upserted + 1]
         done == PersistStep([d |-> DB,
                              stats |-> [EmptyStats EXCEPT
                                           !.newItems = runs[r].newItems]],
                             item, runs[r].existing, now)
     IN /\ workitems' = done.d.workitems
        /\ workitems_fts' = done.d.workitems_fts
        /\ runs' = [runs EXCEPT
                      ![r].upserted = @ + 1,
                      ![r].newItems = done.stats.newItems,
                      ![r].pc = IF runs[r].upserted + 1 = Len(runs[r].survivors)
                                  THEN "returned" ELSE "persisting"]
  /\ RunFrame

RunStartsAny == \E r \in Runs : RunStarts(r)
RunSnapshotsAny == \E r \in Runs, all \in RunFetches : RunSnapshots(r, all)
RunUpsertsAny == \E r \in Runs : RunUpserts(r)

NextRuns ==
  \/ RunStartsAny
  \/ RunSnapshotsAny
  \/ RunUpsertsAny

SpecRuns == Init /\ [][NextRuns]_vars

\* ---------------------------------------------------------- the API server
LocalAddresses == {"127.0.0.1", "::1", "::ffff:127.0.0.1"}

\* initData as validateInitData takes it apart: the hash parameter (absent,
\* the HMAC of the other parameters under the bot token, or anything else),
\* the age of auth_date in seconds (<<>> when absent), the user parameter
\* (absent, JSON, or text that JSON.parse rejects).  The empty string is
\* the record with empty |-> TRUE.
InitDatas ==
  {[empty |-> TRUE]} \cup
  {[empty |-> FALSE, hash |-> h, age |-> a, user |-> u] :
     h \in {"absent", "hmac", "other"},
     a \in {<<>>, <<0>>, <<3601>>},
     u \in {"absent", "json", "garbage"}}

\* validateInitData(initData, botToken), the bot token being set: the user
\* as <<user>>, null as <<>>.
validateInitData(initData) ==
  IF initData.empty THEN <<>>
  ELSE IF initData.hash = "absent" THEN <<>>
  ELSE IF initData.hash # "hmac" THEN <<>>
  ELSE IF initData.age # <<>> /\ initData.age[1] > 3600 THEN <<>>
  ELSE IF initData.user = "absent" THEN <<>>
  ELSE IF initData.user = "garbage" THEN <<>>
  ELSE <<"user">>

\* The Authorization header: absent, of another scheme, or "tma <initData>".
Authorizations ==
  {[scheme |-> "absent"], [scheme |-> "Bearer"]} \cup
  {[scheme |-> "tma", initData |-> d] : d \in InitDatas}

Requests ==
  {[path |-> p, ip |-> a, authorization |-> h] :
     p \in {"/api/health", "/api/inbox", "/api/sync"},
     a \in LocalAddresses \cup {"203.0.113.7"},
     h \in Authorizations}

\* req.path inside a handler mounted at /api.
MountPath(path) ==
  CASE path = "/api/health" -> "/health"
    [] path = "/api/inbox" -> "/inbox"
    [] path = "/api/sync" -> "/sync"
    [] OTHER -> path

\* authMiddleware(req, res, next), called with the path req has at the mount:
\* the response it sends, or next().
authMiddleware(path, authorization) ==
  IF path = "/api/health" THEN [next |-> TRUE, status |-> 0]
  ELSE IF authorization.scheme # "tma" THEN [next |-> FALSE, status |-> 401]
  ELSE IF validateInitData(authorization.initData) = <<>>
    THEN [next |-> FALSE, status |-> 401]
  ELSE [next |-> TRUE, status |-> 0]

\* The handler createServer mounts at /api.
apiAuth(req) ==
  IF MountPath(req.path) = "/health" THEN [next |-> TRUE, status |-> 0]
  ELSE IF req.ip \in LocalAddresses THEN [next |-> TRUE, status |-> 0]
  ELSE authMiddleware(MountPath(req.path), req.authorization)

AuthFrame ==
  UNCHANGED <<storeVars, sync_state, now, runVars, statusHistory, lastFetched,
              lastUpserted, storageError, adapterVars, arg, ret, retry, runs,
              syncResult>>

\* A request reaches the server.
Receive(req) ==
  /\ http.pc = "idle"
  /\ http' = [pc |-> "mounted", req |-> req, status |-> 0, handled |-> FALSE]
  /\ AuthFrame

ReceiveAny == \E req \in Requests : Receive(req)

\* The handler mounted at /api runs.
ApiAuth ==
  /\ http.pc = "mounted"
  /\ LET r == apiAuth(http.req)
     IN http' = IF r.next THEN [http EXCEPT !.pc = "route"]
                ELSE [http EXCEPT !.pc = "responded", !.status = r.status]
  /\ AuthFrame

\* The route's handler runs and answers.
RouteHandler ==
  /\ http.pc = "route"
  /\ http' = [http EXCEPT !.pc = "responded", !.status = 200,
                          !.handled = TRUE]
  /\ AuthFrame

NextApi ==
  \/ ReceiveAny
  \/ ApiAuth
  \/ RouteHandler

SpecApi == Init /\ [][NextApi]_vars

\* ------------------------------------------- POST /api/inbox/:id/action
BuiltinActions == {"seen", "in_progress", "done", "dismissed"}

\* statusMap[action], as <<status>>, or <<>> for an action it does not have.
statusMap(action) ==
  CASE action = "read" -> <<"seen">>
    [] action = "archive" -> <<"done">>
    [] action = "close" -> <<"done">>
    [] action = "merge" -> <<"done">>
    [] action = "approve" -> <<"seen">>
    [] OTHER -> <<>>

\* The action of the request body ("" when it has none).
ActionInputs == {"", "done", "dismissed", "archive", "approve", "comment"}

ActionFrame ==
  UNCHANGED <<sync_state, now, runVars, statusHistory, lastFetched,
              lastUpserted, storageError, wasConnected, calls, arg, ret,
              retry, runs, syncResult>>

\* The answer res.status(code).json(...) of the handler.
Answered(h, code) == [h EXCEPT !.pc = "responded", !.status = code]

\* The request as the handler takes it up.
ActionRequest(id, action, cached) ==
  [pc |-> "route",
   req |-> [path |-> "/api/inbox/:id/action", id |-> id, action |-> action,
            cached |-> cached],
   status |-> 0, handled |-> TRUE, called |-> {},
   before |-> IF id \in DOMAIN workitems THEN <<workitems[id].status>>
              ELSE <<>>]

\* A handler that writes the mapped status before it calls the channel.
ActionHandlerOptimistic(id, action, cached) ==
  /\ http.pc \in {"idle", "responded"}
  /\ LET h == ActionRequest(id, action, cached)
         d == IF id \in DOMAIN workitems /\ action \in BuiltinActions
                THEN updateStatus(DB, id, action)
              ELSE IF id \in DOMAIN workitems /\ statusMap(action) # <<>>
                THEN updateStatus(DB, id, statusMap(action)[1])
              ELSE DB
     IN /\ http' =
             IF action = "" THEN Answered(h, 400)
             ELSE IF id \notin DOMAIN workitems THEN Answered(h, 404)
             ELSE IF action \in BuiltinActions THEN Answered(h, 200)
             ELSE IF ~cached THEN Answered(h, 400)
             ELSE IF ~connected[workitems[id].source]
               THEN [h EXCEPT !.pc = "connect", !.called = {"connect"}]
             ELSE [h EXCEPT !.pc = "perform", !.called = {"performAction"}]
        /\ workitems' = d.workitems
        /\ workitems_fts' = d.workitems_fts
  /\ UNCHANGED connected
  /\ ActionFrame

\* The handler runs for item id and the action of the body, the channel of
\* the item's source being among the cached channels or not: up to its
\* answer or its first await.
ActionHandler(id, action, cached) ==
  /\ http.pc \in {"idle", "responded"}
  /\ LET h == ActionRequest(id, action, cached)
         d == IF id \in DOMAIN workitems /\ action \in BuiltinActions
                THEN updateStatus(DB, id, action)
                ELSE DB
     IN /\ http' =
             IF action = "" THEN Answered(h, 400)
             ELSE IF id \notin DOMAIN workitems THEN Answered(h, 404)
             ELSE IF action \in BuiltinActions THEN Answered(h, 200)
             ELSE IF ~cached THEN Answered(h, 400)
             ELSE IF ~connected[workitems[id].source]
               THEN [h EXCEPT !.pc = "connect", !.called = {"connect"}]
             ELSE [h EXCEPT !.pc = "perform", !.called = {"performAction"}]
        /\ workitems' = d.workitems
        /\ workitems_fts' = d.workitems_fts
  /\ UNCHANGED connected
  /\ ActionFrame

\* await channel.connect() is over: performAction is called, or the throw
\* is caught and answered with 500.
ActionConnectSettles(ok) ==
  /\ http.pc = "connect"
  /\ http' = IF ok THEN [http EXCEPT !.pc = "perform",
                                     !.called = @ \cup {"performAction"}]
             ELSE Answered(http, 500)
  /\ connected' = [connected EXCEPT ![workitems[http.req.id].source] = ok]
  /\ UNCHANGED storeVars
  /\ ActionFrame

\* await channel.performAction(...) is over: the mapped status is written
\* and the request answered, or the throw is caught and answered with 500.
ActionPerformSettles(ok) ==
  /\ http.pc = "perform"
  /\ LET newStatus == statusMap(http.req.action)
         d == IF ok /\ newStatus # <<>>
                THEN updateStatus(DB, http.req.id, newStatus[1]) ELSE DB
     IN /\ http' = Answered(http, IF ok THEN 200 ELSE 500)
        /\ workitems' = d.workitems
        /\ workitems_fts' = d.workitems_fts
  /\ UNCHANGED connected
  /\ ActionFrame

ActionHandlerAny ==
  \E id \in AllIds, action \in ActionInputs, cached \in BOOLEAN :
    ActionHandler(id, action, cached)

NextAction ==
  \/ UpsertCore
  \/ ActionHandlerAny
  \/ \E ok \in BOOLEAN : ActionConnectSettles(ok)
  \/ \E ok \in BOOLEAN : ActionPerformSettles(ok)

SpecAction == Init /\ [][NextAction]_vars

\* ---------------------------------------------------------------- withRetry
\* An option left out is <<>>, one that is given is <<value>>.
\* The errors an operation throws: status is 0 and code is "" when the error
\* has no such property.
MakeError(status, code, message) ==
  [status |-> status, code |-> code, message |-> message]

RetryErrors ==
  {MakeError(500, "", "Server error"),
   MakeError(429, "", "Too many requests"),
   MakeError(404, "", "Not found"),
   MakeError(403, "", "API rate limit exceeded"),
   MakeError(0, "ECONNRESET", "socket hang up")}

\* defaultIsRetryable(err): 429, 5xx, ECONNRESET, ETIMEDOUT.
defaultIsRetryable(err) ==
  \/ err.status = 429
  \/ err.status >= 500
  \/ err.code = "ECONNRESET" \/ err.code = "ETIMEDOUT"

\* The predicate the GitHub connector passes: a 403 whose message matches
\* /rate limit/i, 5xx, ECONNRESET.
githubIsRetryable(err) ==
  \/ err.status = 403 /\ err.message = "API rate limit exceeded"
  \/ err.status >= 500
  \/ err.code = "ECONNRESET"

\* options?.isRetryable ?? defaultIsRetryable
isRetryable(options, err) ==
  IF options.isRetryable = "github" THEN githubIsRetryable(err)
  ELSE defaultIsRetryable(err)

\* options?.maxRetries ?? DEFAULT_MAX_RETRIES
maxRetries(options) ==
  IF options.maxRetries = <<>> THEN DEFAULT_MAX_RETRIES
  ELSE options.maxRetries[1]

\* A test that never takes the last attempt for the last: the loop ends
\* and "withRetry: unreachable" is thrown.
GivesUpNeverLast(options, err, attempt) == ~isRetryable(options, err)

\* A test that throws on the last attempt only, whatever the error.
GivesUpOnLastOnly(options, err, attempt) == attempt = maxRetries(options) - 1

\* if (!isRetryable(err) || attempt === maxRetries - 1) throw err
GivesUp(options, err, attempt) ==
  ~isRetryable(options, err) \/ attempt = maxRetries(options) - 1

RetryOptions ==
  {[maxRetries |-> m, isRetryable |-> p] :
     m \in {<<>>} \cup {<<n>> : n \in 1..MaxRetryOption}, p \in {"defaultIsRetryable", "github"}}

InitRetry ==
  /\ InitBase
  /\ \E options \in RetryOptions : arg = [fn |-> "withRetry", options |-> options]

RetryFrame ==
  UNCHANGED <<storeVars, sync_state, now, runVars, statusHistory, lastFetched,
              lastUpserted, storageError, adapterVars, arg, ret, sideVars>>

\* The head of the loop with the loop variable at `attempt`, st being the
\* call's record: fn() is invoked, or the loop is over.
LoopFrom(st, attempt) ==
  IF attempt < maxRetries(arg.options)
    THEN [st EXCEPT !.pc = "calling", !.attempt = attempt, !.invoked = @ + 1]
    ELSE [st EXCEPT !.pc = "threw", !.attempt = attempt,
                    !.value = [kind |-> "thrown",
                               error |-> MakeError(0, "", "withRetry: unreachable")]]

\* withRetry(fn, options) is called: up to its first await.
WithRetry ==
  /\ arg.fn = "withRetry"
  /\ retry.pc = "none"
  /\ retry' = LoopFrom(retry, 0)
  /\ RetryFrame

\* The attempt under way resolves: withRetry returns its value.
FnResolves ==
  /\ retry.pc = "calling"
  /\ retry' = [retry EXCEPT !.pc = "returned",
                        !.value = [kind |-> "returned", result |-> "ok"]]
  /\ RetryFrame

\* The attempt under way rejects with err: withRetry rethrows it or sleeps.
FnRejects(err) ==
  /\ retry.pc = "calling"
  /\ retry' =
       IF GivesUp(arg.options, err, retry.attempt)
         THEN [retry EXCEPT !.pc = "threw",
                            !.value = [kind |-> "thrown", error |-> err],
                            !.errors = Append(@, err)]
         ELSE [retry EXCEPT !.pc = "sleeping", !.waits = @ + 1,
                            !.errors = Append(@, err)]
  /\ RetryFrame

FnRejectsAny == \E err \in RetryErrors : FnRejects(err)

\* The sleep is over: the next turn of the loop.
SleepEnds ==
  /\ retry.pc = "sleeping"
  /\ retry' = LoopFrom(retry, retry.attempt + 1)
  /\ RetryFrame

\* The 30 s timer of the race that the call belongs to fires while the call
\* is under way: the race rejects; nothing is passed on to withRetry.
TimeoutFires ==
  /\ retry.pc \in {"calling", "sleeping"}
  /\ ~retry.abandoned
  /\ retry' = [retry EXCEPT !.abandoned = TRUE]
  /\ RetryFrame

NextRetry ==
  \/ WithRetry
  \/ FnResolves
  \/ FnRejectsAny
  \/ SleepEnds
  \/ TimeoutFires

SpecRetry == InitRetry /\ [][NextRetry]_vars

\* withRetry with any number as maxRetries: zero and negative ones too.
RetryOptionsAny ==
  RetryOptions \cup
  {[maxRetries |-> <<n>>, isRetryable |-> "defaultIsRetryable"] :
     n \in {-1, 0}}

InitRetryAny ==
  /\ InitBase
  /\ \E options \in RetryOptionsAny :
       arg = [fn |-> "withRetry", options |-> options]

SpecRetryAny == InitRetryAny /\ [][NextRetry]_vars

\* ============================================================== claims
ExpectedStatus(last, i) ==
  IF last[i] # "" THEN last[i] ELSE firstInserted[i][1].status

\* C1 as stated: whatever syncAll runs and updateStatus calls have happened,
\* the stored status of an item is the status of the last updateStatus call
\* on its id, or with no such call the status of its first insert.
C1_StatusIsLastUpdateCalled ==
  \A i \in DOMAIN workitems : workitems[i].status = ExpectedStatus(lastUpdate, i)

\* C1 amended: the stored status of an item is the status of the last
\* updateStatus call made on its id while the id was stored (a call on an id
\* not stored yet changes nothing), or with no such call the status of its
\* first insert; no syncAll run changes it.
C1_StatusIsLastUpdateApplied ==
  \A i \in DOMAIN workitems : workitems[i].status = ExpectedStatus(lastApplied, i)

\* A run has just re-ingested, with another title than its first one, an id
\* that was stored and marked done: the run's inbox leaves it out.
C1_Witness ==
  /\ pc = "returned"
  /\ "github-issue-1" \in existingItems
  /\ "github-issue-1" \in IdsOf(allNewItems)
  /\ "github-issue-1" \notin IdsOf(resultItems)
  /\ lastApplied["github-issue-1"] = "done"
  /\ workitems["github-issue-1"].status = "done"
  /\ workitems["github-issue-1"].title = LastWithId(allNewItems, "github-issue-1").title
  /\ workitems["github-issue-1"].title # firstInserted["github-issue-1"][1].title

\* The survivors of the finished run's dedup, as the channels delivered them.
Deduped == deduplicateItems(allNewItems)

NoRuleApplies(item) ==
  /\ item.type # "pr" /\ item.type # "mention"
  /\ ~item.metadata.isDM
  /\ ~urgentKeywords(item.title) /\ ~urgentKeywords(item.body)

InboxShows(id, priority) ==
  LET inbox == getInbox(DB, NoFilters, now)
  IN \E k \in 1..Len(inbox) : inbox[k].id = id /\ inbox[k].priority = priority

\* C2: age escalation is never persisted: once a run has ingested an item of
\* source priority normal to which no type, DM or keyword rule applies and
\* which is more than 24 hours old, raw storage has it at normal while the
\* inbox shows it at high.
C2_AgeEscalationNotPersisted ==
  pc = "returned" =>
    \A i \in IdsOf(Deduped) :
      LET item == LastWithId(Deduped, i) IN
      (/\ item.priority = "normal"
       /\ NoRuleApplies(item)
       /\ now - item.timestamp > AgeHighHours)
      => /\ workitems[i].priority = "normal"
         /\ InboxShows(i, "high")

\* C3: priority does not ratchet: a run that ingests an id with the very item
\* (same source priority, same timestamp) its channel delivered at the id's
\* last ingest leaves the persisted priority as it was, whatever the time
\* between the two runs.
C3_NoRatchetAcrossResyncs ==
  [][(pc # "returned" /\ pc' = "returned") =>
       \A i \in DOMAIN workitems :
         (lastFetched[i] # <<>> /\ i \in IdsOf(deduplicateItems(allNewItems'))
            /\ lastFetched'[i] = lastFetched[i])
         => workitems'[i].priority = workitems[i].priority]_vars

\* The case of C4: a run on an empty store in which github returned just X,
\* of priority normal, and slack just Y, of priority high, with X's url.
C4_Case ==
  /\ pc = "returned"
  /\ existingItems = {}
  /\ Len(delivered["github"]) = 1 /\ Len(delivered["slack"]) = 1
  /\ outcome["github"] = "ok" /\ outcome["slack"] = "ok"
  /\ delivered["github"][1].priority = "normal"
  /\ delivered["slack"][1].priority = "high"
  /\ delivered["github"][1].url # ""
  /\ delivered["github"][1].url = delivered["slack"][1].url

StoredWithUrl(u) == {i \in DOMAIN workitems : workitems[i].url = u}

\* C4 as stated: after that run exactly one stored record has the url, its
\* priority is high, and stats.duplicatesSkipped is 1.
C4_CollapseStoresHigh ==
  C4_Case =>
    /\ Cardinality(StoredWithUrl(delivered["slack"][1].url)) = 1
    /\ \A i \in StoredWithUrl(delivered["slack"][1].url) :
         workitems[i].priority = "high"
    /\ stats.duplicatesSkipped = 1

\* C4 amended: after that run exactly one stored record has the url, it is
\* Y's record, its priority is high or urgent (at least high), and
\* stats.duplicatesSkipped is 1.
C4_CollapseStoresAtLeastHigh ==
  C4_Case =>
    /\ StoredWithUrl(delivered["slack"][1].url) = {delivered["slack"][1].id}
    /\ \A i \in StoredWithUrl(delivered["slack"][1].url) :
         /\ workitems[i].priority \in {"high", "urgent"}
         /\ workitems[i].title = delivered["slack"][1].title
    /\ stats.duplicatesSkipped = 1
    /\ stats.totalItems = 1

\* The collapse has happened and stored Y at high.
C4_Witness ==
  /\ C4_Case
  /\ workitems["slack-dm-1"].priority = "high"
  /\ "github-issue-1" \notin DOMAIN workitems

RECURSIVE ItemsOfOk(_)
\* The lists of the channels from k on whose connect, sync and disconnect
\* all succeeded, in channel order.
ItemsOfOk(k) ==
  IF k > Len(Channels) THEN <<>>
  ELSE (IF outcome[Channels[k]] = "ok" THEN delivered[Channels[k]] ELSE <<>>)
         \o ItemsOfOk(k + 1)

Failed(c) == outcome[c] \notin {"ok", "none"}

\* C5: partial failure isolation: syncAll never rejects because a channel's
\* connect or sync threw or timed out, and once it has returned every item of
\* a succeeding channel that survives deduplication is in the store: a record
\* with its id and source exists, holding the title and url of the last
\* survivor with that id.
C5_PartialFailureIsolation ==
  /\ pc # "threw"
  /\ pc = "returned" =>
       LET survivors == deduplicateItems(ItemsOfOk(1)) IN
       \A k \in 1..Len(survivors) :
         /\ survivors[k].id \in DOMAIN workitems
         /\ workitems[survivors[k].id].source = survivors[k].source
         /\ (\A j \in (k + 1)..Len(survivors) : survivors[j].id # survivors[k].id)
              => /\ workitems[survivors[k].id].title = survivors[k].title
                 /\ workitems[survivors[k].id].url = survivors[k].url

\* github failed, slack succeeded, and slack's item alone is stored.
C5_Witness ==
  /\ pc = "returned"
  /\ outcome["github"] = "sync_throws"
  /\ outcome["slack"] = "ok"
  /\ Len(delivered["slack"]) = 1
  /\ DOMAIN workitems = {"slack-dm-1"}

\* C6: in the returned statistics the entry of a source that failed or timed
\* out carries an error, and the entry of a source that succeeded carries none.
C6_FailedSourceEntryCarriesError ==
  pc = "returned" =>
    \A c \in ChannelNames :
      /\ c \in DOMAIN stats.perSource
      /\ Failed(c) <=> "error" \in DOMAIN stats.perSource[c]

SyncStateWritten(c) == <<[last_sync |-> now, cursor |-> "NULL"]>>

\* C9: in every run the sync state is written for exactly the sources whose
\* fetch succeeded: when a channel's race settles, its record is created or
\* overwritten if its sync() returned, and is as before if its connect or
\* sync threw or timed out; no other record changes, then or at any other time.
C9_SyncStateExactlyOnFetchSuccess ==
  [][\A c \in ChannelNames :
       IF outcome[c] = "none" /\ outcome'[c] # "none"
         THEN /\ outcome'[c] \in {"ok", "disconnect_throws"}
                   => getSyncState(sync_state', c) = SyncStateWritten(c)
              /\ outcome'[c] \in {"connect_throws", "sync_throws", "timeout"}
                   => getSyncState(sync_state', c) = getSyncState(sync_state, c)
         ELSE (\A b \in ChannelNames : outcome[b] # "none" \/ outcome'[b] = "none")
                => getSyncState(sync_state', c) = getSyncState(sync_state, c)]_vars

\* The channels whose connect() the running call has called, and those whose
\* race has settled.
StartedChannels ==
  IF pc \in {"race", "catch"} THEN {Channels[k] : k \in 1..idx} ELSE {}

SettledChannels == {c \in ChannelNames : outcome[c] # "none"}

\* C10: the fetches run concurrently: no channel's connect is started after
\* another channel's fetch has completed, failed or timed out, and the run
\* reconciles and returns only when all of them have.
C10_FetchesRunConcurrently ==
  [][/\ \A c \in ChannelNames :
          (c \in StartedChannels' /\ c \notin StartedChannels)
            => SettledChannels' = {}
     /\ (pc # "returned" /\ pc' = "returned")
          => SettledChannels' = ChannelNames]_vars

\* C7: after any sequence of upserts the store holds exactly one record per
\* id ever upserted (id is the primary key: workitems is a function of the
\* id), and its title, body, author, timestamp, priority, url and metadata
\* are those of the most recent upsert of that id.
C7_OneRecordPerIdLastUpsertWins ==
  /\ DOMAIN workitems = {i \in AllIds : lastUpserted[i] # <<>>}
  /\ \A i \in DOMAIN workitems :
       LET row == workitems[i]
           item == lastUpserted[i][1]
       IN /\ row.id = i
          /\ row.title = item.title
          /\ row.body = item.body
          /\ row.author = item.author
          /\ row.timestamp = item.timestamp
          /\ row.priority = item.priority
          /\ row.url = item.url
          /\ row.metadata = item.metadata
  /\ \A i, j \in DOMAIN workitems : workitems[i].rowid = workitems[j].rowid => i = j

\* github-issue-1 was inserted with one content and last upserted with another.
C7_Witness ==
  /\ "github-issue-1" \in DOMAIN workitems
  /\ firstInserted["github-issue-1"] # lastUpserted["github-issue-1"]
  /\ workitems["github-issue-1"].body = lastUpserted["github-issue-1"][1].body
  /\ workitems["github-issue-1"].body # firstInserted["github-issue-1"][1].body

Queries == {"OAuth", "issue"}

\* The stored items one of whose given columns contains every word of query.
ItemsContaining(query, columns) ==
  {rowToWorkItem(workitems[i]) :
     i \in {j \in DOMAIN workitems :
              \A w \in Tokens(query) :
                \E c \in columns : w \in Tokens(workitems[j][c])}}

C11_SyncAllTerminates == (pc = "race") ~> (pc \in {"returned", "threw"})

\* C12: a storage-level error raised during a run (by the membership read,
\* an upsert or a sync-state update) fails the run: once a storage call has
\* thrown, syncAll has thrown to its caller; it does not go on with the
\* next source or return a result.
C12_StorageErrorFailsTheRun == storageError # "none" => pc = "threw"

\* C13: an adapter that is connected when syncAll is called is neither
\* re-connected nor disconnected by the run: syncAll calls neither connect()
\* nor disconnect() on it and it stays connected, whether its sync succeeds,
\* throws or times out.
C13_ConnectedAdapterLeftAlone ==
  \A c \in ChannelNames : wasConnected[c] => calls[c] = {} /\ connected[c]

\* C14: dedup idempotence: deduplicateItems applied to its own result
\* returns the same items in the same order.
C14_DedupIdempotent ==
  (arg.fn = "deduplicateItems" /\ arg.pass = 2 /\ ret # <<>>)
    => ret[1] = arg.items

\* A result with items of two urls and a url-less one has gone through again.
C14_Witness ==
  /\ arg.fn = "deduplicateItems"
  /\ arg.pass = 2
  /\ ret # <<>>
  /\ Len(arg.items) = 3
  /\ arg.items[1].url = SharedUrl
  /\ arg.items[2].url = OtherUrl
  /\ arg.items[3].url = ""
  /\ Len(ret[1]) = 3

PositionsOfUrl(items, u) == {k \in 1..Len(items) : items[k].url = u}

\* The first position, among those of url u, whose priority rank is the best.
FirstBest(items, u) ==
  CHOOSE k \in PositionsOfUrl(items, u) :
    \A j \in PositionsOfUrl(items, u) :
      \/ PRIORITY_ORDER(items[k].priority) < PRIORITY_ORDER(items[j].priority)
      \/ /\ PRIORITY_ORDER(items[k].priority) = PRIORITY_ORDER(items[j].priority)
         /\ k <= j

\* C15: for every non-empty url of the input, deduplicateItems returns
\* exactly one item with that url: the first in input order among the items
\* of that url whose priority rank is the best; no later item of equal
\* priority replaces it.
C15_FirstOfBestPriorityPerUrl ==
  (arg.fn = "deduplicateItems" /\ ret # <<>>) =>
    \A u \in {arg.items[k].url : k \in 1..Len(arg.items)} \ {""} :
      /\ Cardinality(PositionsOfUrl(ret[1], u)) = 1
      /\ \A k \in PositionsOfUrl(ret[1], u) :
           ret[1][k] = arg.items[FirstBest(arg.items, u)]

\* Two items of the same url and priority, a then b: a is the one returned.
C15_Witness ==
  /\ arg.fn = "deduplicateItems"
  /\ arg.pass = 1
  /\ Len(arg.items) = 3
  /\ \A k \in 1..3 : arg.items[k].url = SharedUrl
  /\ arg.items[1].priority = "normal"
  /\ arg.items[2].priority = "high" /\ arg.items[2].id = "a"
  /\ arg.items[3].priority = "high" /\ arg.items[3].id = "b"
  /\ ret = <<(<<arg.items[2]>>)>>

HasNoUrl(item) == item.url = ""

\* C16: deduplicateItems never drops an item whose url is empty: the
\* url-less items of the result are those of the input, each as often as it
\* occurs there and in the same order.
C16_UrlLessItemsAllSurvive ==
  (arg.fn = "deduplicateItems" /\ ret # <<>>) =>
    SelectSeq(ret[1], HasNoUrl) = SelectSeq(arg.items, HasNoUrl)

\* The same url-less item twice: two url-less items returned.
C16_Witness ==
  /\ arg.fn = "deduplicateItems"
  /\ arg.pass = 1
  /\ Len(arg.items) = 3
  /\ arg.items[1] = arg.items[3]
  /\ arg.items[1].url = ""
  /\ arg.items[2].url = SharedUrl
  /\ ret # <<>>
  /\ Len(ret[1]) = 3

HasKeyword(item) == urgentKeywords(item.title) \/ urgentKeywords(item.body)

TypeOrDMRuleApplies(item) ==
  item.type \in {"pr", "mention"} \/ item.metadata.isDM

\* The higher of two priorities.
HigherOf(p, q) == IF PRIORITY_ORDER(p) <= PRIORITY_ORDER(q) THEN p ELSE q

\* C17: the type/DM rule forces at least high: for an item of type pr or
\* mention, or with the isDM flag, and with no urgent keyword in title or
\* body, the priority after applyPriorityHeuristics is the higher of its
\* incoming priority and high: normal and low become high, urgent stays.
C17_TypeOrDMForcesAtLeastHigh ==
  (/\ arg.fn = "applyPriorityHeuristics"
   /\ ret # <<>>
   /\ TypeOrDMRuleApplies(arg.item)
   /\ ~HasKeyword(arg.item))
    => ret[1].priority = HigherOf(arg.item.priority, "high")

\* C18: keyword escalation is a hard override applied last: for every item
\* whose title or body contains an urgent keyword as a whole word, in any
\* case, applyPriorityHeuristics leaves the priority urgent, whatever the
\* incoming priority, the type, the DM flag and the age; nothing else of the
\* item changes.
C18_KeywordForcesUrgent ==
  (arg.fn = "applyPriorityHeuristics" /\ ret # <<>> /\ HasKeyword(arg.item))
    => ret[1] = [arg.item EXCEPT !.priority = "urgent"]

\* A low pull request that is a DM, with CRITICAL in its title: urgent.
C18_Witness ==
  /\ arg.fn = "applyPriorityHeuristics"
  /\ arg.item.type = "pr"
  /\ arg.item.metadata.isDM
  /\ arg.item.priority = "low"
  /\ arg.item.title = "CRITICAL: server down"
  /\ arg.item.body = ""
  /\ ret # <<>>
  /\ ret[1].priority = "urgent"

\* The age escalation as the claim tabulates it.
AgeTable(priority, ageHours) ==
  IF priority = "normal" /\ ageHours > AgeHighHours THEN "high"
  ELSE IF priority = "high" /\ ageHours > AgeUrgentHours THEN "urgent"
  ELSE priority

\* C19: applyAgeEscalation maps (priority, age) so: normal over 24 hours
\* becomes high; high over 48 hours becomes urgent; low and urgent are
\* unchanged at any age, and so are normal up to 24 hours and high up to 48
\* hours; one pass raises a priority by at most one level, and nothing else
\* of the item changes.
C19_AgeEscalationTable ==
  (arg.fn = "applyAgeEscalation" /\ ret # <<>>) =>
    /\ ret[1] = [arg.item EXCEPT
                   !.priority = AgeTable(arg.item.priority,
                                         arg.t - arg.item.timestamp)]
    /\ PRIORITY_ORDER(arg.item.priority) - PRIORITY_ORDER(ret[1].priority)
         \in {0, 1}

\* A normal item 49 hours old comes out high, not urgent.
C19_Witness ==
  /\ arg.fn = "applyAgeEscalation"
  /\ arg.item.priority = "normal"
  /\ arg.t - arg.item.timestamp = AgeUrgentHours + 1
  /\ ret # <<>>
  /\ ret[1].priority = "high"

\* The ids the claim expects of getInbox(f) on the table w.
InboxExpected(w, f) ==
  {i \in DOMAIN w :
     /\ f.source = "" \/ w[i].source = f.source
     /\ IF f.status = "" THEN w[i].status \notin {"done", "dismissed"}
        ELSE w[i].status = f.status}

\* C20: getInbox without a status filter returns no item whose stored status
\* is done or dismissed and every other stored item that matches the other
\* filters; getInbox with a status filter s returns exactly the matching
\* items of status s, also for s = done and s = dismissed.  Each item is
\* returned once, with its stored status.
C20_InboxStatusFilter ==
  [][(<<arg, ret>>' # <<arg, ret>>) =>
       /\ arg'.fn = "getInbox"
       /\ {ret'[1][k].id : k \in 1..Len(ret'[1])}
            = InboxExpected(workitems', arg'.filters)
       /\ Len(ret'[1]) = Cardinality(InboxExpected(workitems', arg'.filters))
       /\ \A k \in 1..Len(ret'[1]) :
            ret'[1][k].status = workitems'[ret'[1][k].id].status]_vars

\* Of two stored items one is done and one dismissed: getInbox({status:
\* "done"}) has just returned the done one alone.
C20_Witness ==
  /\ arg = [fn |-> "getInbox", filters |-> [NoFilters EXCEPT !.status = "done"]]
  /\ DOMAIN workitems = AllIds
  /\ workitems["github-issue-1"].status = "done"
  /\ workitems["slack-dm-1"].status = "dismissed"
  /\ Len(ret[1]) = 1
  /\ ret[1][1].id = "github-issue-1"

\* A step on which getInbox returns.
GetInboxReturns == <<arg, ret>>' # <<arg, ret>> /\ arg'.fn = "getInbox"

\* C21: the list returned by getInbox carries the age-escalated priorities
\* and is ordered by them, urgent first, then high, normal, low, and among
\* items of equal displayed priority by timestamp descending: of every two
\* adjacent items a, b, rank(a) < rank(b), or the ranks are equal and
\* a.timestamp >= b.timestamp.
C21_InboxOrder ==
  [][GetInboxReturns =>
       /\ \A k \in 1..Len(ret'[1]) :
            ret'[1][k].priority =
              AgeTable(workitems[ret'[1][k].id].priority,
                       now - workitems[ret'[1][k].id].timestamp)
       /\ \A k \in 1..(Len(ret'[1]) - 1) :
            LET a == ret'[1][k]
                b == ret'[1][k + 1]
            IN \/ PRIORITY_ORDER(a.priority) < PRIORITY_ORDER(b.priority)
               \/ /\ PRIORITY_ORDER(a.priority) = PRIORITY_ORDER(b.priority)
                  /\ a.timestamp >= b.timestamp]_vars

\* Two items displayed urgent, one stored urgent and one escalated from
\* high, the newer one first.
C21_Witness ==
  /\ arg.fn = "getInbox"
  /\ ret # <<>>
  /\ Len(ret[1]) = 2
  /\ ret[1][1].priority = "urgent" /\ ret[1][2].priority = "urgent"
  /\ ret[1][1].timestamp > ret[1][2].timestamp
  /\ DOMAIN workitems = AllIds
  /\ workitems[ret[1][2].id].priority = "high"

\* C22: getInbox is read-only: whatever the store and the filter, the
\* workitems table, the text index and the sync-state table are after
\* getInbox what they were before it, while the returned copies carry the
\* age-escalated priorities.
C22_GetInboxReadOnly ==
  [][GetInboxReturns =>
       /\ workitems' = workitems
       /\ workitems_fts' = workitems_fts
       /\ sync_state' = sync_state
       /\ \A k \in 1..Len(ret'[1]) :
            ret'[1][k].priority =
              applyAgeEscalation(rowToWorkItem(workitems'[ret'[1][k].id]),
                                 now').priority]_vars

\* getInbox returned an item as high that is stored as normal.
C22_Witness ==
  /\ arg.fn = "getInbox"
  /\ ret # <<>>
  /\ \E k \in 1..Len(ret[1]) :
       /\ ret[1][k].id \in DOMAIN workitems
       /\ ret[1][k].priority = "high"
       /\ workitems[ret[1][k].id].priority = "normal"
       /\ now - workitems[ret[1][k].id].timestamp > AgeHighHours

AllRetryable(errors) ==
  \A k \in 1..Len(errors) : isRetryable(arg.options, errors[k])

\* C23: withRetry bounds its attempts: the operation is never invoked more
\* than maxRetries times (3 by default); when every attempt has failed with
\* a retryable error and withRetry has thrown, the operation was invoked
\* exactly maxRetries times and the error thrown is that of the last
\* attempt, unchanged; when withRetry has returned after k - 1 retryable
\* failures, it returns the result of attempt k <= maxRetries and the
\* operation was invoked exactly k times.
C23_RetryBoundsAttempts ==
  arg.fn = "withRetry" =>
    /\ retry.invoked <= maxRetries(arg.options)
    /\ (retry.pc = "threw" /\ AllRetryable(retry.errors)) =>
         /\ retry.invoked = maxRetries(arg.options)
         /\ Len(retry.errors) = maxRetries(arg.options)
         /\ retry.value = [kind |-> "thrown",
                            error |-> retry.errors[Len(retry.errors)]]
    /\ retry.pc = "returned" =>
         /\ retry.value = [kind |-> "returned", result |-> "ok"]
         /\ AllRetryable(retry.errors)
         /\ retry.invoked = Len(retry.errors) + 1
         /\ retry.invoked <= maxRetries(arg.options)

\* With maxRetries left out: three attempts failed with 500 and the third
\* 500 was thrown after two waits.
C23_Witness ==
  /\ arg.fn = "withRetry"
  /\ arg.options.maxRetries = <<>>
  /\ retry.pc = "threw"
  /\ retry.invoked = 3
  /\ retry.waits = 2
  /\ \A k \in 1..3 : retry.errors[k].status = 500
  /\ retry.value.kind = "thrown"
  /\ retry.value.error.status = 500

\* C24: a non-retryable error (by the active isRetryable predicate) thrown
\* by any attempt makes withRetry fail at once with that same error: it is
\* the last error the operation threw, the operation is not invoked again
\* and no wait follows it.
C24_NonRetryableThrownAtOnce ==
  arg.fn = "withRetry" =>
    \A k \in 1..Len(retry.errors) :
      ~isRetryable(arg.options, retry.errors[k]) =>
        /\ k = Len(retry.errors)
        /\ retry.pc = "threw"
        /\ retry.value = [kind |-> "thrown", error |-> retry.errors[k]]
        /\ retry.invoked = k
        /\ retry.waits = k - 1

\* Under the GitHub predicate: a 500, one wait, then a 429, thrown at once.
C24_Witness ==
  /\ arg.fn = "withRetry"
  /\ arg.options.isRetryable = "github"
  /\ arg.options.maxRetries = <<>>
  /\ retry.pc = "threw"
  /\ Len(retry.errors) = 2
  /\ retry.errors[1].status = 500
  /\ retry.errors[2].status = 429
  /\ retry.value.kind = "thrown"
  /\ retry.value.error.status = 429
  /\ retry.invoked = 2
  /\ retry.waits = 1

\* C25: once the per-source timeout of the orchestrator has fired for the
\* fetch a withRetry call belongs to, withRetry starts no further attempt of
\* the operation.
C25_NoAttemptAfterTimeout ==
  [][retry.abandoned => retry'.invoked = retry.invoked]_vars

C29_StoredIdsOnlyGrow ==
  [][DOMAIN workitems \subseteq DOMAIN workitems']_vars

\* A run has returned in which github failed and slack delivered nothing,
\* and both items stored before it are still stored.
C29_Witness ==
  /\ pc = "returned"
  /\ outcome["github"] = "sync_throws"
  /\ outcome["slack"] = "ok"
  /\ delivered["slack"] = <<>>
  /\ allNewItems = <<>>
  /\ DOMAIN workitems = AllIds

NewSurvivors(survivors, snapshot) ==
  {k \in 1..Len(survivors) : survivors[k].id \notin snapshot}

\* C30: in syncAll, whether a survivor counts as new is decided against one
\* snapshot of the stored ids, taken after all fetches and before the first
\* upsert of the run: when a run returns, the snapshot is the set of ids
\* stored before its persist loop, and stats.newItems is the number of
\* survivors whose id is not in it, an id that two survivors share being
\* counted twice.
C30_SingleMembershipSnapshot ==
  [][(pc # "returned" /\ pc' = "returned") =>
       /\ existingItems' = DOMAIN workitems
       /\ stats'.newItems =
            Cardinality(NewSurvivors(deduplicateItems(allNewItems'),
                                     DOMAIN workitems))]_vars

\* Slack returned slack-dm-1 twice, under two urls, to an empty store: two
\* survivors, both counted as new, one record.
C30_Witness ==
  /\ pc = "returned"
  /\ existingItems = {}
  /\ Len(deduplicateItems(allNewItems)) = 2
  /\ \A k \in 1..2 : deduplicateItems(allNewItems)[k].id = "slack-dm-1"
  /\ stats.newItems = 2
  /\ DOMAIN workitems = {"slack-dm-1"}

\* A statement of the persistence phase of call r is executed: its
\* membership snapshot or one of its upserts.
PersistenceStatement(r) ==
  \/ runs[r].pc = "fetching" /\ runs'[r].pc # "fetching"
  \/ runs'[r].upserted # runs[r].upserted

\* C26: the persistence phases of two syncAll calls running concurrently
\* against the same store never interleave: from the membership snapshot of
\* one call to its last upsert, no membership snapshot or upsert of another
\* call takes place.
C26_PersistencePhasesNeverInterleave ==
  [][\A r1 \in Runs, r2 \in Runs :
       (r1 # r2 /\ runs[r1].pc = "persisting") =>
         ~PersistenceStatement(r2)]_vars

HasValidInitData(req) ==
  /\ req.authorization.scheme = "tma"
  /\ validateInitData(req.authorization.initData) # <<>>

\* C27: every request to an /api endpoint other than /api/health that
\* carries no valid Telegram initData in an "Authorization: tma ..." header
\* is answered with 401 and its route handler is not run, whatever the
\* address of the client.
C27_ApiRequiresTelegramAuth ==
  (/\ http.pc \in {"route", "responded"}
   /\ http.req.path # "/api/health"
   /\ ~HasValidInitData(http.req)) =>
     /\ http.pc = "responded"
     /\ http.status = 401
     /\ ~http.handled

RECURSIVE SumNew(_, _)
SumNew(perSource, names) ==
  IF names = {} THEN 0
  ELSE LET c == CHOOSE x \in names : TRUE
       IN perSource[c].new + SumNew(perSource, names \ {c})

\* C31: when a run returns, stats.newItems is the number of records the
\* store gained during the run (stored ids after it minus stored ids before
\* it), and the per-source new counts add up to stats.newItems, also when
\* survivors share an id.
C31_NewItemsIsRecordsGained ==
  [][(pc # "returned" /\ pc' = "returned") =>
       /\ stats'.newItems =
            Cardinality(DOMAIN workitems' \ DOMAIN workitems)
       /\ SumNew(stats'.perSource, DOMAIN stats'.perSource) =
            stats'.newItems]_vars

RECURSIVE SumTotal(_, _)
SumTotal(perSource, names) ==
  IF names = {} THEN 0
  ELSE LET c == CHOOSE x \in names : TRUE
       IN perSource[c].total + SumTotal(perSource, names \ {c})

Succeeded == {c \in ChannelNames : outcome[c] = "ok"}

\* C32: the statistics of a run that has returned are consistent with each
\* other: stats.totalItems is the number of dedup survivors,
\* stats.duplicatesSkipped is the number of fetched items the dedup dropped,
\* the fetched count of a source that succeeded is the number of items it
\* returned, and totalItems + duplicatesSkipped is the sum of the fetched
\* counts of the sources that succeeded.
C32_StatsConsistent ==
  pc = "returned" =>
    LET fetched == ItemsOfOk(1)
        survivors == deduplicateItems(fetched)
    IN /\ stats.totalItems = Len(survivors)
       /\ stats.duplicatesSkipped = Len(fetched) - Len(survivors)
       /\ \A c \in Succeeded : stats.perSource[c].total = Len(delivered[c])
       /\ stats.totalItems + stats.duplicatesSkipped =
            SumTotal(stats.perSource, Succeeded)

\* Both sources succeeded with one item each under the same url: one
\* survivor, one duplicate skipped, two fetched.
C32_Witness ==
  /\ pc = "returned"
  /\ Succeeded = ChannelNames
  /\ Len(delivered["github"]) = 1
  /\ Len(delivered["slack"]) = 1
  /\ stats.totalItems = 1
  /\ stats.duplicatesSkipped = 1
  /\ stats.perSource["github"].total = 1
  /\ stats.perSource["slack"].total = 1

ItemsIn(seq) == {seq[k] : k \in 1..Len(seq)}

\* C33: a fetch result that arrives after its source's timeout has fired is
\* discarded: none of its items is in the list given to the dedup, none is
\* upserted, the source's counts in the statistics stay 0 and its sync state
\* is not written; the statistics of the run count the items of the sources
\* that succeeded and no others.
C33_LateResultDiscarded ==
  \A c \in ChannelNames :
    syncResult[c].late =>
      /\ outcome[c] = "timeout"
      /\ ItemsIn(syncResult[c].items[1]) \cap ItemsIn(allNewItems) = {}
      /\ \A it \in ItemsIn(syncResult[c].items[1]) :
           it.id \notin DOMAIN workitems
      /\ stats.perSource[c] = [total |-> 0, new |-> 0]
      /\ c \notin DOMAIN sync_state
      /\ pc = "returned" => allNewItems = ItemsOfOk(1)
      /\ pc = "returned" =>
           stats.totalItems = Len(deduplicateItems(ItemsOfOk(1)))

\* github timed out and its item arrived afterwards; slack succeeded with
\* its item: the run returned with the slack item alone.
C33_Witness ==
  /\ pc = "returned"
  /\ syncResult["github"].late
  /\ Len(syncResult["github"].items[1]) = 1
  /\ outcome["slack"] = "ok"
  /\ Len(delivered["slack"]) = 1
  /\ DOMAIN workitems = {"slack-dm-1"}
  /\ stats.totalItems = 1

\* C34: every item returned by a sync() that resolved within its timeout is
\* part of the combined list given to the dedup in that run, also when the
\* adapter's disconnect() after it throws or hangs.
C34_FetchedItemsReachDedup ==
  pc = "returned" =>
    \A c \in ChannelNames :
      (syncResult[c].items # <<>> /\ ~syncResult[c].late) =>
        ItemsIn(syncResult[c].items[1]) \subseteq ItemsIn(allNewItems)

\* C35: after any sequence of runs of syncAll, no two stored records have
\* the same non-empty url: an item fetched in a later run whose url is that
\* of a record stored by an earlier run under another id does not become a
\* second record with that url.
C35_OneRecordPerUrl ==
  \A i \in DOMAIN workitems, j \in DOMAIN workitems :
    (i # j /\ workitems[i].url # "") => workitems[i].url # workitems[j].url

\* C36: collapsing never loses the more urgent classification: when a run
\* returns, for every group of items it fetched under one non-empty url, the
\* priority persisted for the surviving record is the most urgent of the
\* priorities the ingest-time rules give to the members of the group taken
\* one by one.
C36_CollapseKeepsMostUrgent ==
  [][(pc # "returned" /\ pc' = "returned") =>
       \A s \in ItemsIn(deduplicateItems(allNewItems')) :
         s.url # "" =>
           LET group == {m \in ItemsIn(allNewItems') : m.url = s.url}
               stored == PRIORITY_ORDER(workitems'[s.id].priority)
           IN /\ \A m \in group :
                   stored <=
                     PRIORITY_ORDER(applyPriorityHeuristics(m, now).priority)
              /\ \E m \in group :
                   stored =
                     PRIORITY_ORDER(applyPriorityHeuristics(m, now).priority)]_vars

\* C37: every wait computed by defaultGetWaitMs is at most 120 seconds:
\* with a retry-after hint of N > 0 seconds it is min(1000 N + 500, 120000)
\* ms, whatever the attempt and the other hint; otherwise, with a
\* quota-reset hint, it is min(max(0, reset - now) + 1000, 120000) ms;
\* without a hint it is min(1000 * 2^attempt, 120000) ms.
C37_WaitCapped ==
  (arg.fn = "defaultGetWaitMs" /\ ret # <<>>) =>
    LET ra == arg.err.retryAfter
        rs == arg.err.rateLimitReset
    IN /\ ret[1] <= 120000
       /\ ret[1] >= 0
       /\ (ra # <<>> /\ ra[1] > 0) =>
            ret[1] = Min(1000 * ra[1] + 500, 120000)
       /\ (~(ra # <<>> /\ ra[1] > 0) /\ rs # <<>>) =>
            ret[1] = Min(Max(0, rs[1] * 1000 - arg.dateNow) + 1000, 120000)
       /\ (ra = <<>> /\ rs = <<>>) =>
            ret[1] = Min(1000 * 2 ^ arg.attempt, 120000)

\* Attempt 7 without a hint: 128 s of backoff, capped to 120 s.
C37_Witness ==
  /\ arg.fn = "defaultGetWaitMs"
  /\ arg.attempt = 7
  /\ arg.err.retryAfter = <<>>
  /\ arg.err.rateLimitReset = <<>>
  /\ ret = <<120000>>

ActionUnderWay ==
  /\ http.pc \in {"connect", "perform", "responded"}
  /\ http.req.path = "/api/inbox/:id/action"
  /\ http.before # <<>>

\* C38: in the action endpoint, the stored status of the item is what it
\* was when the request came in until the request is answered with 200: a
\* channel-specific action that fails (no channel for the source, connect
\* throws, performAction throws) leaves it unchanged; the status mapped from
\* the action is written only once performAction has returned; the built-in
\* actions seen, in_progress, done and dismissed set the status without any
\* call to a channel.
C38_ActionStatusAfterSuccess ==
  ActionUnderWay =>
    LET id == http.req.id
        action == http.req.action
        done == http.pc = "responded" /\ http.status = 200
    IN /\ workitems[id].status =
            IF done /\ action \in BuiltinActions THEN action
            ELSE IF done /\ statusMap(action) # <<>> THEN statusMap(action)[1]
            ELSE http.before[1]
       /\ action \in BuiltinActions => (done /\ http.called = {})
       /\ (done /\ action \notin BuiltinActions) =>
            "performAction" \in http.called

\* archive on slack-dm-1: connect() returned, performAction threw, the
\* request was answered with 500 and the item is still new.
C38_Witness ==
  /\ ActionUnderWay
  /\ http.req.id = "slack-dm-1"
  /\ http.req.action = "archive"
  /\ http.called = {"connect", "performAction"}
  /\ http.pc = "responded"
  /\ http.status = 500
  /\ http.before = <<"new">>
  /\ workitems["slack-dm-1"].status = "new"

\* C39: withRetry invokes the operation at least once for every value of
\* the maxRetries option, 0 and negative values included, and every failure
\* of withRetry carries an error thrown by the operation itself.
C39_AtLeastOneAttempt ==
  (arg.fn = "withRetry" /\ retry.pc \in {"returned", "threw"}) =>
    /\ retry.invoked >= 1
    /\ retry.pc = "threw" =>
         \E k \in 1..Len(retry.errors) :
           retry.value = [kind |-> "thrown", error |-> retry.errors[k]]

====
